---- MODULE Spec2Model ----
(***************************************************************************)
(* pumpkin-monitor: the reconciliation loop (monitor_iteration), the       *)
(* health loop (status_monitor_iteration), the two BuildManagers they own, *)
(* the GitHubMonitor poller and the Storage they share behind one RwLock.  *)
(*                                                                         *)
(* Every critical section on the storage lock, every operating-system call *)
(* (spawn, kill, try_wait) and every network fetch is one atomic step.     *)
(* Option<T> is a sequence: None is <<>>, Some(x) is <<x>>.                *)
(***************************************************************************)
EXTENDS Integers, Sequences, FiniteSets, TLC

\* ------------------------------------------------------------------ bounds
\* Number of service processes the operating system lets the agent spawn.
MaxPid == 2
\* Number of distinct upstream commits.
MaxCommit == 2
\* Number of BuildStatus identities (uuid::Uuid::new_v4) that can be drawn.
MaxId == 3

\* The history cap of Storage::save_build_status.
HistoryCap == 100

Pids == 1..MaxPid
Commits == 1..MaxCommit

None == <<>>
Some(x) == <<x>>

\* ------------------------------------------------------------------- state
VARIABLES
    \* operating system and file system
    alive,               \* pids of the service children that are alive
    next_pid,            \* the pid the next spawn gets
    compiler_alive,      \* the cargo child of build_project is alive
    repo_cloned,         \* <workspace>/<repo>/.git exists
    binary_built,        \* <workspace>/<repo>/target/release/<binary> exists
    repo_head,           \* the commit the working tree is at (None: no clone)
    binary_commit,       \* the commit the binary was compiled from (None: no binary)
    now,                 \* chrono::Utc::now(); Spec holds the clock still
    next_id,             \* the next uuid
    \* upstream and the poller
    upstream_tip,        \* the commit the GitHub API serves
    last_commit_sha,     \* GitHubMonitor.last_commit_sha
    poll_log,            \* history: what the poller's calls returned, and the tip then
    \* storage (behind the RwLock)
    system_status,       \* StorageData.system_status
    builds,              \* StorageData.builds
    data_file,           \* the data file in the workspace, as Storage::save leaves it
    \* the reconciliation task (monitor_handle)
    build_manager,       \* its BuildManager.current_process
    m_pc, m_is_running, m_new_status, m_commit, m_last, m_build, m_new_pid,
    m_calls,             \* history: the calls the tick has made and how cargo ended
    m_result,
    retry_count,         \* main's consecutive-failure counter (line 95)
    \* the health task (status_monitor_handle)
    build_manager_clone, \* its BuildManager.current_process
    s_pc, s_is_running, s_current_status, s_pid, s_calls,
    s_failed,            \* history: the last health tick returned Err
    \* a caller of the BuildManager's public methods (SpecSupervisor)
    sup_ret,             \* what the last call returned
    \* the configuration (Config::load, main.rs line 38)
    max_retries,         \* config.runtime.max_retries
    storage_lock,        \* who holds a guard of the RwLock around the Storage
    web_response,        \* the last response a dashboard/API handler returned
    child,               \* a git or cargo child: what it writes and whether it has exited
    stdout_pipe,         \* number of lines written to the child's stdout and not yet read
    stderr_pipe,         \* the lines written to the child's stderr and not yet read
    drain_kind,          \* "git" (clone_or_update_repo) or "cargo" (build_project)
    drain_pc,            \* "loop": output_task runs; "wait": it is over; "returned"
    error_output,        \* build_project's diagnostic buffer
    drain_result         \* what the function returned

os_vars == <<alive, next_pid, compiler_alive, repo_cloned, binary_built, repo_head, binary_commit, now, next_id>>
poller_vars == <<upstream_tip, last_commit_sha, poll_log>>
storage_vars == <<system_status, builds, data_file>>
monitor_vars == <<build_manager, m_pc, m_is_running, m_new_status, m_commit, m_last, m_build, m_new_pid, m_calls, m_result, retry_count>>
status_vars == <<build_manager_clone, s_pc, s_is_running, s_current_status, s_pid, s_calls, s_failed>>
caller_vars == <<sup_ret>>
config_vars == <<max_retries>>
lock_vars == <<storage_lock>>
web_vars == <<web_response>>
drain_vars == <<child, stdout_pipe, stderr_pipe, drain_kind, drain_pc, error_output, drain_result>>
vars == <<os_vars, poller_vars, storage_vars, monitor_vars, status_vars, caller_vars, config_vars, drain_vars, web_vars, lock_vars>>

\* --------------------------------------------------------------- storage.rs
\* StorageData::default().system_status (process_pid as main.rs uses it).
DefaultSystemStatus ==
    [current_commit |-> None, build_status |-> "Pending", is_running |-> FALSE,
     last_check |-> 0, started_at |-> None, process_pid |-> None]

\* Vec::retain(|b| b.id != id)
Retain(s, id) ==
    LET Keep(b) == b.id # id IN SelectSeq(s, Keep)

\* The comparator of sort_by(|a, b| b.started_at.cmp(&a.started_at)): a goes
\* before b exactly when it compares Less, that is when a started later.
StartedLater(a, b) == a.started_at > b.started_at

\* Vec::sort_by: a stable sort, here the insertion sort of TLC's SortSeq,
\* which moves an element forward only past elements it goes before.
SortDesc(s) == SortSeq(s, StartedLater)

\* Vec::truncate(n)
Truncate(s, n) == IF Len(s) > n THEN SubSeq(s, 1, n) ELSE s

\* A faulty save_build_status whose cap is off by one (truncate at 101); C8
\* must reject it.
save_build_status_off_by_one(history, build) ==
    Truncate(SortDesc(Append(Retain(history, build.id), build)), HistoryCap + 1)

\* A faulty save_build_status that leaves the new record where push put it
\* (no sort_by); C33 must reject it.
save_build_status_unsorted(history, build) ==
    Truncate(Append(Retain(history, build.id), build), HistoryCap)

\* Storage::save_build_status: retain, push, sort_by, truncate.
save_build_status(history, build) ==
    Truncate(SortDesc(Append(Retain(history, build.id), build)), HistoryCap)

\* What the data file holds after a successful Storage::save of data.
Document(data) == [kind |-> "json", data |-> data]

\* StorageData::default()
DefaultStorageData == [builds |-> <<>>, system_status |-> DefaultSystemStatus]

\* Storage::save: the whole StorageData is serialized and written over the
\* data file.
save == data_file' = Document([builds |-> builds', system_status |-> system_status'])

\* What the data file can be when the agent starts: absent, a document that
\* Storage::save wrote, text that is not such a document, or bytes that are
\* not UTF-8 text.
FileKinds == {"absent", "json", "text", "bytes"}

\* Storage::new(file_path): read_to_string fails on bytes that are not UTF-8
\* and `?` returns the error; text that serde_json cannot parse, or no file,
\* gives StorageData::default(); then the data is saved, and `?` returns the
\* error of a failed write.
Storage_new(file, save_ok) ==
    IF file.kind = "bytes" THEN [ok |-> FALSE, data |-> DefaultStorageData, file |-> file]
    ELSE LET data == IF file.kind = "json" THEN file.data ELSE DefaultStorageData IN
         IF save_ok THEN [ok |-> TRUE, data |-> data, file |-> Document(data)]
         ELSE [ok |-> FALSE, data |-> data, file |-> file]

\* Storage::update_system_status
update_system_status(status) == status

\* Storage::set_service_started
set_service_started(status, t) ==
    [status EXCEPT !.is_running = TRUE, !.started_at = Some(t)]

\* Storage::set_service_stopped
set_service_stopped(status) == [status EXCEPT !.is_running = FALSE]

\* ---------------------------------------------------------------- github.rs
\* What the HTTP GET can come to: a success answer carrying the tip, a
\* non-success status, a failure of the request itself, or a success answer
\* whose body is not JSON or has no string "sha" (both leave with `?`).
Responses(tip) ==
    {[kind |-> "ok", sha |-> tip], [kind |-> "status"], [kind |-> "neterr"], [kind |-> "badbody"]}

\* A faulty check_for_updates that does not remember the sha it returns; C9
\* must reject it.
check_for_updates_forgets(last, resp) ==
    IF resp.kind \in {"neterr", "badbody"} THEN [ret |-> "Err", commit |-> None, last |-> last]
    ELSE IF resp.kind = "status" THEN [ret |-> "None", commit |-> None, last |-> last]
    ELSE IF last # None /\ last[1] = resp.sha
         THEN [ret |-> "None", commit |-> None, last |-> last]
         ELSE [ret |-> "Some", commit |-> Some(resp.sha), last |-> last]

\* A faulty check_for_updates that turns a non-success status into an error;
\* C21 must reject it.
check_for_updates_status_is_error(last, resp) ==
    IF resp.kind \in {"neterr", "badbody", "status"} THEN [ret |-> "Err", commit |-> None, last |-> last]
    ELSE IF last # None /\ last[1] = resp.sha
         THEN [ret |-> "None", commit |-> None, last |-> last]
         ELSE [ret |-> "Some", commit |-> Some(resp.sha), last |-> Some(resp.sha)]

\* GitHubMonitor::check_for_updates: the returned value and the new memory.
check_for_updates(last, resp) ==
    IF resp.kind \in {"neterr", "badbody"} THEN [ret |-> "Err", commit |-> None, last |-> last]
    ELSE IF resp.kind = "status" THEN [ret |-> "None", commit |-> None, last |-> last]
    ELSE IF last # None /\ last[1] = resp.sha
         THEN [ret |-> "None", commit |-> None, last |-> last]
         ELSE [ret |-> "Some", commit |-> Some(resp.sha), last |-> Some(resp.sha)]

\* A faulty get_latest_commit that remembers the commit it returns; C22 must
\* reject it.
get_latest_commit_remembers(last, resp) ==
    IF resp.kind \in {"neterr", "badbody"} THEN [ret |-> "Err", commit |-> None, last |-> last]
    ELSE IF resp.kind = "status" THEN [ret |-> "None", commit |-> None, last |-> last]
    ELSE [ret |-> "Some", commit |-> Some(resp.sha), last |-> Some(resp.sha)]

\* GitHubMonitor::get_latest_commit
get_latest_commit(last, resp) ==
    IF resp.kind \in {"neterr", "badbody"} THEN [ret |-> "Err", commit |-> None, last |-> last]
    ELSE IF resp.kind = "status" THEN [ret |-> "None", commit |-> None, last |-> last]
    ELSE [ret |-> "Some", commit |-> Some(resp.sha), last |-> last]

\* ----------------------------------------------------------------- build.rs
\* BuildManager::is_process_running: try_wait on the tracked child.
is_process_running(current_process, live, try_wait_err) ==
    IF current_process = None THEN [running |-> FALSE, current_process |-> None]
    ELSE IF try_wait_err THEN [running |-> FALSE, current_process |-> None]
    ELSE IF current_process[1] \in live
         THEN [running |-> TRUE, current_process |-> current_process]
         ELSE [running |-> FALSE, current_process |-> None]

\* BuildManager::stop_current_process: take the handle; kill and wait.
stop_current_process(current_process, live, kill_ok) ==
    IF current_process = None THEN [current_process |-> None, alive |-> live]
    ELSE IF kill_ok
         THEN [current_process |-> None, alive |-> live \ {current_process[1]}]
         ELSE [current_process |-> None, alive |-> live]

\* BuildManager::start_new_process: the binary must exist and the spawn succeed;
\* the new child replaces whatever handle was tracked.
start_new_process(current_process, binary, spawn_ok, pid) ==
    IF ~binary THEN [ok |-> FALSE, pid |-> None, current_process |-> current_process]
    ELSE IF ~spawn_ok THEN [ok |-> FALSE, pid |-> None, current_process |-> current_process]
    ELSE [ok |-> TRUE, pid |-> Some(pid), current_process |-> Some(pid)]

\* The BuildStatus that restart_service and build_project start from.
NewBuildStatus(id, sha, t) ==
    [id |-> id, commit_sha |-> sha, status |-> "Building", started_at |-> t,
     finished_at |-> None, error_message |-> None]

\* The outcomes of the race between drain-and-wait and the deadline.
BuildOutcomes == {"exit0", "exit1", "wait_err", "timeout"}

\* A faulty build_project that records the message only on the timeout arm;
\* C39 must reject it.
build_project_finish_drops_stderr(build, outcome, t) ==
    [build EXCEPT
        !.status = IF outcome = "exit0" THEN "Success" ELSE "Failed",
        !.error_message = IF outcome = "timeout" THEN Some("Build timeout") ELSE None,
        !.finished_at = Some(t)]

\* BuildManager::build_project after the spawn: the match on build_result.
build_project_finish(build, outcome, t) ==
    [build EXCEPT
        !.status = IF outcome = "exit0" THEN "Success" ELSE "Failed",
        !.error_message =
            CASE outcome = "exit0" -> None
              [] outcome = "exit1" -> Some("stderr")
              [] outcome = "wait_err" -> Some("wait error")
              [] OTHER -> Some("Build timeout"),
        !.finished_at = Some(t)]

\* A faulty build_project that does not kill the child on the timeout arm;
\* C7 must reject it.
build_project_child_after_no_kill(outcome) ==
    IF outcome \in {"wait_err", "timeout"} THEN BOOLEAN ELSE {FALSE}

\* Whether the cargo child can still be alive when build_project returns: it
\* has exited when child.wait() returned its status, child.kill().await on
\* the timeout arm kills it and waits for the exit, and a failed wait leaves
\* it unknown.
build_project_child_after(outcome) ==
    IF outcome = "wait_err" THEN BOOLEAN ELSE {FALSE}

\* A faulty failure arm that finalizes the record without setting Failed; C17
\* must reject it.
restart_service_failed_keeps_building(build, message, t) ==
    [build EXCEPT !.error_message = Some(message), !.finished_at = Some(t)]

\* restart_service, the arm of a failed step: the record is finalized Failed.
restart_service_failed(build, message, t) ==
    [build EXCEPT !.status = "Failed", !.error_message = Some(message),
                  !.finished_at = Some(t)]

\* A faulty cleanup_old_process that signals the pid without looking at what
\* ps reported; C11 must reject it.
cleanup_old_process_signals_blindly(pid, procs, ps_found, term_ok, dies_on_term, ps_again_ok) ==
    IF ~term_ok \/ pid \notin procs
    THEN [ok |-> TRUE, procs |-> procs, signals |-> <<"SIGTERM">>]
    ELSE [ok |-> TRUE, procs |-> procs \ {pid}, signals |-> <<"SIGTERM">>]

\* BuildManager::cleanup_old_process(pid) on the process table procs: ps -p,
\* kill -15, three seconds, ps -p again, kill -9. ps_found is what the first
\* ps reported, term_ok whether kill -15 succeeded, dies_on_term whether the
\* process ended within the three seconds, ps_again_ok whether the second ps
\* could be run. It takes &self: the tracked handle is out of its reach.
cleanup_old_process(pid, procs, ps_found, term_ok, dies_on_term, ps_again_ok) ==
    IF ~ps_found THEN [ok |-> TRUE, procs |-> procs, signals |-> <<>>]
    ELSE IF ~term_ok THEN [ok |-> TRUE, procs |-> procs, signals |-> <<>>]
    ELSE IF dies_on_term
         THEN [ok |-> TRUE, procs |-> procs \ {pid}, signals |-> <<"SIGTERM">>]
    ELSE IF ps_again_ok
         THEN [ok |-> TRUE, procs |-> procs \ {pid}, signals |-> <<"SIGTERM", "SIGKILL">>]
    ELSE [ok |-> TRUE, procs |-> procs, signals |-> <<"SIGTERM">>]

\* What ps -p can report of a pid: a process that is not in the process table
\* is never found; for one that is, ps itself can fail to run.
PsResults(pid, procs) == IF pid \in procs THEN BOOLEAN ELSE {FALSE}

\* --------------------------------------------------- main.rs: the environment
\* A new commit is pushed: the upstream branch tip moves to it.
TipMove ==
    /\ upstream_tip < MaxCommit
    /\ upstream_tip' = upstream_tip + 1
    /\ UNCHANGED <<caller_vars, config_vars, drain_vars, web_vars, lock_vars, os_vars, last_commit_sha, poll_log, storage_vars, monitor_vars, status_vars>>

\* A service child exits on its own (a crash).
ProcessExit ==
    /\ \E p \in alive : alive' = alive \ {p}
    /\ UNCHANGED <<caller_vars, config_vars, drain_vars, web_vars, lock_vars, next_pid, compiler_alive, repo_cloned, repo_head, binary_built, binary_commit, now, next_id,
                   poller_vars, storage_vars, monitor_vars, status_vars>>

\* A spawn can succeed only while the operating system has a pid to give.
SpawnResults == IF next_pid <= MaxPid THEN BOOLEAN ELSE {FALSE}

\* A fetch can answer with a commit only while a deploy could still draw the
\* two uuids it needs; otherwise upstream is unavailable to the agent.
FetchResponses ==
    IF next_id + 1 <= MaxId THEN Responses(upstream_tip)
    ELSE Responses(upstream_tip) \ {[kind |-> "ok", sha |-> upstream_tip]}

\* ------------------------------------------- main.rs: monitor_iteration
\* lines 98-112: the consecutive-failure counter after a tick's result: zero
\* on Ok, one more on Err, and zero again once it has reached max_retries.
retry_after(count, result, max) ==
    IF result = "ok" THEN 0
    ELSE IF count + 1 >= max THEN 0 ELSE count + 1

\* ------------------------------------------------ the RwLock around Storage
\* A faulty reconciliation task that keeps the one write guard it took for the
\* rest of its run; C14 must reject it.
write_guard_kept(task) ==
    /\ storage_lock \in {"free", task}
    /\ storage_lock' = IF task = "monitor" THEN task ELSE "free"

\* `{ let mut storage_guard = storage.write().await; ... }`: the guard is
\* acquired when nobody holds one and is dropped at the end of its block or
\* match arm, before the task does anything else.
write_guard(task) ==
    /\ storage_lock = "free"
    /\ storage_lock' = "free"

\* `{ let storage_guard = storage.read().await; ... }`: acquired when no
\* writer holds the lock, dropped at the end of the block.
read_guard(task) ==
    /\ storage_lock \notin {"monitor", "status"}
    /\ storage_lock' = storage_lock

\* A faulty loop that gives up (break) once the counter has reached
\* max_retries; C13 must reject it.
MonitorReturn_gives_up(result) ==
    /\ m_pc' = IF result = "err" /\ retry_count + 1 >= max_retries THEN "stopped" ELSE "idle"
    /\ m_result' = result
    /\ retry_count' = retry_after(retry_count, result, max_retries)
    /\ m_is_running' = FALSE
    /\ m_new_status' = DefaultSystemStatus
    /\ m_commit' = None
    /\ m_last' = None
    /\ m_build' = None
    /\ m_new_pid' = None
    /\ m_calls' = <<>>

\* The tick returns: Ok(()) or Err, and the task sleeps until the next tick.
MonitorReturn(result) ==
    /\ m_pc' = "idle"
    /\ m_result' = result
    /\ retry_count' = retry_after(retry_count, result, max_retries)
    /\ m_is_running' = FALSE
    /\ m_new_status' = DefaultSystemStatus
    /\ m_commit' = None
    /\ m_last' = None
    /\ m_build' = None
    /\ m_new_pid' = None
    /\ m_calls' = <<>>

\* lines 148-156: build_manager.is_process_running(), then read the status
\* under the read lock and build new_status from it. (The probe touches only
\* this task's own child; try_wait on it does not fail here, SpecSupervisor
\* explores the error arm.)
MonitorProbe ==
    /\ m_pc = "idle"
    /\ read_guard("monitor")
    /\ LET r == is_process_running(build_manager, alive, FALSE) IN
         /\ build_manager' = r.current_process
         /\ m_is_running' = r.running
         /\ m_new_status' = [system_status EXCEPT !.is_running = r.running, !.last_check = now]
    /\ m_pc' = "write"
    /\ m_calls' = <<"is_process_running">>
    /\ UNCHANGED <<caller_vars, config_vars, drain_vars, web_vars, os_vars, poller_vars, storage_vars, m_commit, m_last, m_build, m_new_pid,
                   m_result, retry_count, status_vars>>

\* lines 158-161: write new_status under the write lock.
MonitorWrite ==
    /\ m_pc = "write"
    /\ write_guard("monitor")
    /\ system_status' = update_system_status(m_new_status)
    /\ m_pc' = "poll"
    /\ UNCHANGED <<caller_vars, config_vars, drain_vars, web_vars, os_vars, poller_vars, builds, build_manager, m_is_running, m_new_status,
                   m_commit, m_last, m_build, m_new_pid, m_calls, m_result, retry_count, status_vars>>
    /\ save

\* A faulty poll step that forgets the missing binary in needs_rebuild; C23
\* must reject it.
MonitorPoll_ignores_binary ==
    /\ m_pc = "poll"
    /\ \E resp \in FetchResponses :
         LET r == check_for_updates(last_commit_sha, resp) IN
           /\ last_commit_sha' = r.last
           /\ IF r.ret = "Err" THEN MonitorReturn("err")
              ELSE IF r.ret = "None" /\ repo_cloned THEN MonitorReturn("ok")
              ELSE /\ m_pc' = IF r.ret = "Some" THEN "building" ELSE "latest"
                   /\ m_commit' = r.commit
                   /\ m_last' = last_commit_sha
                   /\ m_calls' = Append(m_calls, "check_for_updates")
                   /\ UNCHANGED <<m_result, retry_count, m_is_running, m_new_status, m_build, m_new_pid>>
    /\ UNCHANGED <<caller_vars, config_vars, drain_vars, web_vars, lock_vars, os_vars, upstream_tip, poll_log, storage_vars, build_manager,
                   status_vars>>

\* lines 164-189: the integrity probes, check_for_updates and needs_rebuild.
MonitorPoll ==
    /\ m_pc = "poll"
    /\ \E resp \in FetchResponses :
         LET r == check_for_updates(last_commit_sha, resp) IN
           /\ last_commit_sha' = r.last
           /\ IF r.ret = "Err" THEN MonitorReturn("err")
              ELSE IF r.ret = "None" /\ repo_cloned /\ binary_built THEN MonitorReturn("ok")
              ELSE /\ m_pc' = IF r.ret = "Some" THEN "building" ELSE "latest"
                   /\ m_commit' = r.commit
                   /\ m_last' = last_commit_sha
                   /\ m_calls' = Append(m_calls, "check_for_updates")
                   /\ UNCHANGED <<m_result, retry_count, m_is_running, m_new_status, m_build, m_new_pid>>
    /\ UNCHANGED <<caller_vars, config_vars, drain_vars, web_vars, lock_vars, os_vars, upstream_tip, poll_log, storage_vars, build_manager,
                   status_vars>>

\* lines 193-204: a rebuild without a polled commit fetches the latest commit.
MonitorLatest ==
    /\ m_pc = "latest"
    /\ \E resp \in FetchResponses :
         LET r == get_latest_commit(last_commit_sha, resp) IN
           /\ last_commit_sha' = r.last
           /\ IF r.ret = "Some"
              THEN /\ m_pc' = "building"
                   /\ m_commit' = r.commit
                   /\ m_calls' = Append(m_calls, "get_latest_commit")
                   /\ UNCHANGED <<m_result, retry_count, m_is_running, m_new_status, m_last, m_build, m_new_pid>>
              ELSE MonitorReturn("err")
    /\ UNCHANGED <<caller_vars, config_vars, drain_vars, web_vars, lock_vars, os_vars, upstream_tip, poll_log, storage_vars, build_manager,
                   status_vars>>

\* lines 206-212: persist build_status = Building and the target commit.
MonitorBuilding ==
    /\ m_pc = "building"
    /\ write_guard("monitor")
    /\ LET s == [m_new_status EXCEPT !.build_status = "Building", !.current_commit = m_commit] IN
         /\ m_new_status' = s
         /\ system_status' = update_system_status(s)
    /\ m_pc' = "stop"
    /\ UNCHANGED <<caller_vars, config_vars, drain_vars, web_vars, os_vars, poller_vars, builds, build_manager, m_is_running, m_commit, m_last,
                   m_build, m_new_pid, m_calls, m_result, retry_count, status_vars>>
    /\ save

\* build.rs lines 347-360: restart_service creates its record, stops the
\* current process, whose kill can fail, and sleeps the restart delay.
RestartStop ==
    /\ m_pc = "stop"
    /\ m_build' = Some(NewBuildStatus(next_id, m_commit[1], now))
    /\ next_id' = next_id + 1
    /\ \E kill_ok \in BOOLEAN :
         LET r == stop_current_process(build_manager, alive, kill_ok) IN
           /\ build_manager' = r.current_process
           /\ alive' = r.alive
    /\ m_calls' = m_calls \o <<"stop_current_process", "sleep">>
    /\ m_pc' = "sync"
    /\ UNCHANGED <<caller_vars, config_vars, drain_vars, web_vars, lock_vars, next_pid, compiler_alive, repo_cloned, repo_head, binary_built, binary_commit, now, poller_vars,
                   storage_vars, m_is_running, m_new_status, m_commit, m_last, m_new_pid, m_result, retry_count,
                   status_vars>>

\* A faulty sync step that goes on to the build after a failed sync; C25 must
\* reject it.
RestartSync_builds_anyway ==
    /\ m_pc = "sync"
    /\ \E ok \in BOOLEAN :
         IF ok
         THEN /\ repo_cloned' = TRUE
              /\ repo_head' = Some(upstream_tip)
              /\ m_pc' = "build"
              /\ m_calls' = m_calls \o <<"clone_or_update_repo", "synced">>
              /\ UNCHANGED m_build
         ELSE /\ m_build' = Some(restart_service_failed(m_build[1], "Failed to update repository", now))
              /\ m_pc' = "build"
              /\ m_calls' = m_calls \o <<"clone_or_update_repo", "sync failed">>
              /\ UNCHANGED <<repo_cloned, repo_head>>
    /\ UNCHANGED <<caller_vars, config_vars, drain_vars, web_vars, lock_vars, alive, next_pid, compiler_alive, binary_built, binary_commit, now, next_id, poller_vars,
                   storage_vars, build_manager, m_is_running, m_new_status, m_commit, m_last,
                   m_new_pid, m_result, retry_count, status_vars>>

\* build.rs lines 362-368: clone_or_update_repo; a failure ends the deploy
\* with a Failed record.
RestartSync ==
    /\ m_pc = "sync"
    /\ \E ok \in BOOLEAN :
         IF ok
         THEN /\ repo_cloned' = TRUE
              /\ repo_head' = Some(upstream_tip)
              /\ m_pc' = "build"
              /\ m_calls' = m_calls \o <<"clone_or_update_repo", "synced">>
              /\ UNCHANGED m_build
         ELSE /\ m_build' = Some(restart_service_failed(m_build[1], "Failed to update repository", now))
              /\ m_pc' = "save"
              /\ m_calls' = m_calls \o <<"clone_or_update_repo", "sync failed">>
              /\ UNCHANGED <<repo_cloned, repo_head>>
    /\ UNCHANGED <<caller_vars, config_vars, drain_vars, web_vars, lock_vars, alive, next_pid, compiler_alive, binary_built, binary_commit, now, next_id, poller_vars,
                   storage_vars, build_manager, m_is_running, m_new_status, m_commit, m_last,
                   m_new_pid, m_result, retry_count, status_vars>>

\* build.rs lines 154-174 (called at 371): build_project creates its own
\* record and spawns cargo; a failed spawn is an Err that restart_service and
\* monitor_iteration pass on with `?`.
BuildSpawn ==
    /\ m_pc = "build"
    /\ next_id' = next_id + 1
    /\ \E spawn_ok \in BOOLEAN :
         IF spawn_ok
         THEN /\ m_build' = Some(NewBuildStatus(next_id, m_commit[1], now))
              /\ compiler_alive' = TRUE
              /\ m_pc' = "wait"
              /\ m_calls' = Append(m_calls, "build_project")
              /\ UNCHANGED <<m_result, retry_count, m_is_running, m_new_status, m_commit, m_last, m_new_pid>>
         ELSE /\ UNCHANGED compiler_alive
              /\ MonitorReturn("err")
    /\ UNCHANGED <<caller_vars, config_vars, drain_vars, web_vars, lock_vars, alive, next_pid, repo_cloned, repo_head, binary_built, binary_commit, now, poller_vars, storage_vars,
                   build_manager, status_vars>>

\* build.rs lines 224-259 and 373-375: the race of drain-and-wait against
\* the timeout, and the record it finalizes.
BuildWait ==
    /\ m_pc = "wait"
    /\ \E outcome \in BuildOutcomes :
         /\ m_build' = Some(build_project_finish(m_build[1], outcome, now))
         /\ compiler_alive' \in build_project_child_after(outcome)
         /\ binary_built' = (binary_built \/ outcome = "exit0")
         /\ binary_commit' = IF outcome = "exit0" THEN repo_head ELSE binary_commit
         /\ m_pc' = IF outcome = "exit0" THEN "start" ELSE "save"
         /\ m_calls' = Append(m_calls, outcome)
    /\ UNCHANGED <<caller_vars, config_vars, drain_vars, web_vars, lock_vars, alive, next_pid, repo_cloned, repo_head, now, next_id, poller_vars, storage_vars,
                   build_manager, m_is_running, m_new_status, m_commit, m_last, m_new_pid,
                   m_result, retry_count, status_vars>>

\* build.rs lines 377-397: prepare_workspace_config, then start_new_process.
RestartStart ==
    /\ m_pc = "start"
    /\ \E spawn_ok \in SpawnResults :
         LET r == start_new_process(build_manager, binary_built, spawn_ok, next_pid) IN
           /\ build_manager' = r.current_process
           /\ m_new_pid' = r.pid
           /\ IF r.ok
              THEN /\ alive' = alive \cup {next_pid}
                   /\ next_pid' = next_pid + 1
                   /\ m_build' = Some([m_build[1] EXCEPT !.finished_at = Some(now)])
              ELSE /\ UNCHANGED <<alive, next_pid>>
                   /\ m_build' = Some(restart_service_failed(m_build[1], "Failed to start new process", now))
    /\ m_calls' = m_calls \o <<"prepare_workspace_config", "start_new_process">>
    /\ m_pc' = "save"
    /\ UNCHANGED <<caller_vars, config_vars, drain_vars, web_vars, lock_vars, compiler_alive, repo_cloned, repo_head, binary_built, binary_commit, now, next_id, poller_vars,
                   storage_vars, m_is_running, m_new_status, m_commit, m_last, m_result, retry_count, status_vars>>

\* lines 217-221: save_build_status under the write lock.
MonitorSave ==
    /\ m_pc = "save"
    /\ write_guard("monitor")
    /\ builds' = save_build_status(builds, m_build[1])
    /\ m_calls' = Append(m_calls, "save_build_status")
    /\ m_pc' = "final"
    /\ UNCHANGED <<caller_vars, config_vars, drain_vars, web_vars, os_vars, poller_vars, system_status, build_manager, m_is_running,
                   m_new_status, m_commit, m_last, m_build, m_new_pid, m_result, retry_count, status_vars>>
    /\ save

\* A faulty failure arm that forgets build_status = Failed; C6 must reject it.
monitor_final_status_keeps_building(new_status, build, new_pid, t) ==
    IF build.status = "Success"
    THEN set_service_started(
           update_system_status([new_status EXCEPT
             !.build_status = "Success",
             !.process_pid = IF new_pid # None THEN new_pid ELSE @]), t)
    ELSE set_service_stopped(
           update_system_status([new_status EXCEPT !.process_pid = None]))

\* lines 223-244: the status the tick ends with, written in one critical
\* section together with set_service_started or set_service_stopped.
monitor_final_status(new_status, build, new_pid, t) ==
    IF build.status = "Success"
    THEN set_service_started(
           update_system_status([new_status EXCEPT
             !.build_status = "Success",
             !.process_pid = IF new_pid # None THEN new_pid ELSE @]), t)
    ELSE set_service_stopped(
           update_system_status([new_status EXCEPT
             !.build_status = "Failed", !.process_pid = None]))

MonitorFinal ==
    /\ m_pc = "final"
    /\ write_guard("monitor")
    /\ system_status' = monitor_final_status(m_new_status, m_build[1], m_new_pid, now)
    /\ MonitorReturn("ok")
    /\ UNCHANGED <<caller_vars, config_vars, drain_vars, web_vars, os_vars, poller_vars, builds, build_manager, status_vars>>
    /\ save

\* ------------------------------------ main.rs: status_monitor_iteration
\* lines 254-263: is_process_running() on the health task's own manager,
\* then read the status under the read lock.
StatusProbe ==
    /\ s_pc = "idle"
    /\ read_guard("status")
    /\ LET r == is_process_running(build_manager_clone, alive, FALSE) IN
         /\ build_manager_clone' = r.current_process
         /\ s_is_running' = r.running
         /\ s_pc' = IF system_status.is_running # r.running THEN "write" ELSE "check"
    /\ s_current_status' = system_status
    /\ s_calls' = <<"is_process_running">>
    /\ UNCHANGED <<caller_vars, config_vars, drain_vars, web_vars, os_vars, poller_vars, storage_vars, monitor_vars, s_pid, s_failed>>

\* A faulty transition branch that only flips the flag: it keeps the recorded
\* pid on a stop and neither sets Success nor marks the start on a run; C30
\* must reject it.
status_transition_flag_only(current_status, is_running, t) ==
    update_system_status([current_status EXCEPT
                            !.is_running = is_running, !.last_check = t])

\* lines 264-288: what the transition branch leaves in the storage.
status_transition(current_status, is_running, t) ==
    LET new_status == [current_status EXCEPT
                         !.is_running = is_running,
                         !.build_status = IF is_running THEN "Success" ELSE @,
                         !.last_check = t]
        first == update_system_status(new_status)
    IN IF ~is_running
       THEN LET stopped == set_service_stopped(first)
                updated_status == [new_status EXCEPT !.process_pid = None]
            IN update_system_status(updated_status)
       ELSE set_service_started(first, t)

\* lines 277-288: persist the liveness transition in one critical section.
StatusWrite ==
    /\ s_pc = "write"
    /\ write_guard("status")
    /\ system_status' = status_transition(s_current_status, s_is_running, now)
    /\ s_pc' = "check"
    /\ UNCHANGED <<caller_vars, config_vars, drain_vars, web_vars, os_vars, poller_vars, builds, monitor_vars, build_manager_clone,
                   s_is_running, s_current_status, s_pid, s_calls, s_failed>>
    /\ save

\* line 292: the health loop restarts only when its probe says not running and
\* the status it read does not say Building.
status_wants_restart(is_running, current_status) ==
    ~is_running /\ current_status.build_status # "Building"

\* lines 78-88: the health tick returns Ok(()) or Err, and the task sleeps
\* one second.
StatusReturn(result) ==
    /\ s_pc' = "idle"
    /\ s_failed' = (result = "err")
    /\ s_is_running' = FALSE
    /\ s_current_status' = DefaultSystemStatus
    /\ s_pid' = None
    /\ s_calls' = <<>>

\* A faulty health tick that builds the binary itself when it is missing; C4
\* must reject it.
StatusCheck_rebuilds ==
    /\ s_pc = "check"
    /\ IF status_wants_restart(s_is_running, s_current_status) /\ repo_cloned /\ binary_built
       THEN \E spawn_ok \in SpawnResults :
              LET r == start_new_process(build_manager_clone, binary_built, spawn_ok, next_pid) IN
                /\ build_manager_clone' = r.current_process
                /\ IF r.ok
                   THEN /\ alive' = alive \cup {next_pid}
                        /\ next_pid' = next_pid + 1
                        /\ s_pc' = "started"
                        /\ s_pid' = r.pid
                        /\ s_calls' = Append(s_calls, "start_new_process")
                        /\ UNCHANGED <<s_is_running, s_current_status, s_failed>>
                   ELSE /\ UNCHANGED <<alive, next_pid>>
                        /\ StatusReturn("ok")
                /\ UNCHANGED <<binary_built, binary_commit>>
       ELSE /\ StatusReturn("ok")
            /\ binary_built' = (binary_built \/ (status_wants_restart(s_is_running, s_current_status) /\ repo_cloned))
            /\ binary_commit' = IF status_wants_restart(s_is_running, s_current_status) /\ repo_cloned
                               THEN repo_head ELSE binary_commit
            /\ UNCHANGED <<alive, next_pid, build_manager_clone>>
    /\ UNCHANGED <<caller_vars, config_vars, drain_vars, web_vars, lock_vars, compiler_alive, repo_cloned, repo_head, now, next_id, poller_vars,
                   storage_vars, monitor_vars>>

\* lines 292-322: the bare restart with the existing binary.
StatusCheck ==
    /\ s_pc = "check"
    /\ IF status_wants_restart(s_is_running, s_current_status) /\ repo_cloned /\ binary_built
       THEN \E spawn_ok \in SpawnResults :
              LET r == start_new_process(build_manager_clone, binary_built, spawn_ok, next_pid) IN
                /\ build_manager_clone' = r.current_process
                /\ IF r.ok
                   THEN /\ alive' = alive \cup {next_pid}
                        /\ next_pid' = next_pid + 1
                        /\ s_pc' = "started"
                        /\ s_pid' = r.pid
                        /\ s_calls' = Append(s_calls, "start_new_process")
                        /\ UNCHANGED <<s_is_running, s_current_status, s_failed>>
                   ELSE /\ UNCHANGED <<alive, next_pid>>
                        /\ StatusReturn("ok")
       ELSE /\ StatusReturn("ok")
            /\ UNCHANGED <<alive, next_pid, build_manager_clone>>
    /\ UNCHANGED <<caller_vars, config_vars, drain_vars, web_vars, lock_vars, compiler_alive, repo_cloned, repo_head, binary_built, binary_commit, now, next_id, poller_vars,
                   storage_vars, monitor_vars>>

\* lines 302-308: persist the restart from the status read at the tick's start.
status_started(current_status, pid, t) ==
    set_service_started(
      update_system_status([current_status EXCEPT
                              !.process_pid = pid, !.is_running = TRUE]), t)

StatusStarted ==
    /\ s_pc = "started"
    /\ write_guard("status")
    /\ system_status' = status_started(s_current_status, s_pid, now)
    /\ StatusReturn("ok")
    /\ UNCHANGED <<caller_vars, config_vars, drain_vars, web_vars, os_vars, poller_vars, builds, monitor_vars, build_manager_clone>>
    /\ save

\* ------------------------------------------------------- main.rs: main
\* After construction (lines 41-76): both BuildManagers track nothing, the
\* poller remembers nothing, the storage holds the default document of a
\* first start and the workspace is empty.
InitOS ==
    /\ alive = {}
    /\ next_pid = 1
    /\ compiler_alive = FALSE
    /\ repo_cloned = FALSE
    /\ binary_built = FALSE
    /\ repo_head = None
    /\ binary_commit = None
    /\ now = 0
    /\ next_id = 1

InitPoller ==
    /\ upstream_tip = 1
    /\ last_commit_sha = None
    /\ poll_log = <<>>

InitStorage ==
    /\ system_status = DefaultSystemStatus
    /\ builds = <<>>
    /\ data_file = Document(DefaultStorageData)

InitMonitor ==
    /\ build_manager = None
    /\ m_pc = "idle"
    /\ m_is_running = FALSE
    /\ m_new_status = DefaultSystemStatus
    /\ m_commit = None
    /\ m_last = None
    /\ m_build = None
    /\ m_new_pid = None
    /\ m_calls = <<>>
    /\ m_result = "none"
    /\ retry_count = 0

InitStatus ==
    /\ build_manager_clone = None
    /\ s_pc = "idle"
    /\ s_is_running = FALSE
    /\ s_current_status = DefaultSystemStatus
    /\ s_pid = None
    /\ s_calls = <<>>
    /\ s_failed = FALSE

InitCaller == sup_ret = None

\* The configuration these specifications run: the counter is reset at every
\* failure. SpecLoops ranges over the other values of max_retries.
InitConfig == max_retries = 1

\* main.rs line 57: the lock is created around the loaded Storage, not held.
InitLock == storage_lock = "free"

\* No request has been answered yet.
InitWeb == web_response = None

\* No child is being drained.
InitNoDrain ==
    /\ child = None
    /\ stdout_pipe = 0
    /\ stderr_pipe = <<>>
    /\ drain_kind = "none"
    /\ drain_pc = "idle"
    /\ error_output = <<>>
    /\ drain_result = None

Init == InitOS /\ InitPoller /\ InitStorage /\ InitMonitor /\ InitStatus /\ InitCaller /\ InitConfig /\ InitLock /\ InitWeb /\ InitNoDrain

Next ==
    \/ TipMove
    \/ ProcessExit
    \/ MonitorProbe
    \/ MonitorWrite
    \/ MonitorPoll
    \/ MonitorLatest
    \/ MonitorBuilding
    \/ RestartStop
    \/ RestartSync
    \/ BuildSpawn
    \/ BuildWait
    \/ RestartStart
    \/ MonitorSave
    \/ MonitorFinal
    \/ StatusProbe
    \/ StatusWrite
    \/ StatusCheck
    \/ StatusStarted

Spec == Init /\ [][Next]_vars

\* ------------------------------------- the agent started again: SpecRestarted
\* The record an earlier run of the agent persisted for its deploy of the
\* commit that is still the upstream tip. Its uuid is none of this run's.
EarlierBuild(status) ==
    [NewBuildStatus(0, 1, 0) EXCEPT !.status = status, !.finished_at = Some(0)]

\* main.rs lines 38-57 after an earlier run: Storage::new loads what that run
\* persisted, the repository (and after a successful build the binary) is on
\* disk, the service of the earlier run is gone, and GitHubMonitor::new
\* (github.rs) starts with no remembered commit.
InitRestarted ==
    /\ InitPoller /\ InitMonitor /\ InitStatus /\ InitCaller /\ InitConfig /\ InitLock /\ InitWeb /\ InitNoDrain
    /\ \E status \in {"Success", "Failed"}, running \in BOOLEAN :
         /\ builds = <<EarlierBuild(status)>>
         /\ system_status = [DefaultSystemStatus EXCEPT
                               !.current_commit = Some(1),
                               !.build_status = status,
                               !.is_running = running /\ status = "Success",
                               !.started_at = IF status = "Success" THEN Some(0) ELSE None]
         /\ binary_built = (status = "Success")
         /\ binary_commit = IF status = "Success" THEN Some(1) ELSE None
    /\ data_file = Document([builds |-> builds, system_status |-> system_status])
    /\ repo_cloned = TRUE
    /\ repo_head = Some(1)
    /\ alive = {}
    /\ next_pid = 1
    /\ compiler_alive = FALSE
    /\ now = 0
    /\ next_id = 1

SpecRestarted == InitRestarted /\ [][Next]_vars

\* ------------------------------ a run that has deployed already: SpecDeployed
\* The state a successful first deploy of commit 1 leaves (main.rs lines
\* 223-234): the reconciliation task tracks the live service, the poller
\* remembers the commit, the record is persisted; the uuid source is fresh.
InitDeployed ==
    /\ InitStatus /\ InitCaller /\ InitConfig /\ InitLock /\ InitWeb /\ InitNoDrain
    /\ upstream_tip = 1
    /\ last_commit_sha = Some(1)
    /\ poll_log = <<>>
    /\ builds = <<EarlierBuild("Success")>>
    /\ system_status = [DefaultSystemStatus EXCEPT
                          !.current_commit = Some(1), !.build_status = "Success",
                          !.is_running = TRUE, !.started_at = Some(0),
                          !.process_pid = Some(1)]
    /\ data_file = Document([builds |-> builds, system_status |-> system_status])
    /\ alive = {1}
    /\ build_manager = Some(1)
    /\ m_pc = "idle"
    /\ m_is_running = FALSE
    /\ m_new_status = DefaultSystemStatus
    /\ m_commit = None
    /\ m_last = None
    /\ m_build = None
    /\ m_new_pid = None
    /\ m_calls = <<>>
    /\ m_result = "ok"
    /\ retry_count = 0
    /\ next_pid = 2
    /\ compiler_alive = FALSE
    /\ repo_cloned = TRUE
    /\ binary_built = TRUE
    /\ repo_head = Some(1)
    /\ binary_commit = Some(1)
    /\ now = 0
    /\ next_id = 1

\* Next without MonitorLatest: the repository and the binary exist from the
\* start and nothing removes them, so no rebuild is forced without a commit.
NextDeployed ==
    \/ TipMove
    \/ ProcessExit
    \/ MonitorProbe
    \/ MonitorWrite
    \/ MonitorPoll
    \/ MonitorBuilding
    \/ RestartStop
    \/ RestartSync
    \/ BuildSpawn
    \/ BuildWait
    \/ RestartStart
    \/ MonitorSave
    \/ MonitorFinal
    \/ StatusProbe
    \/ StatusWrite
    \/ StatusCheck
    \/ StatusStarted

SpecDeployed == InitDeployed /\ [][NextDeployed]_vars

\* main.rs lines 91-140: the reconciliation task loops for ever; whatever its
\* tick returns it sleeps and runs the next one, and a tick that runs takes its
\* next step.
MonitorTask ==
    \/ MonitorProbe
    \/ MonitorWrite
    \/ MonitorPoll
    \/ MonitorBuilding
    \/ RestartStop
    \/ RestartSync
    \/ BuildSpawn
    \/ BuildWait
    \/ RestartStart
    \/ MonitorSave
    \/ MonitorFinal

\* main.rs lines 76-88: the health task loops for ever with a one-second sleep.
StatusTask ==
    \/ StatusProbe
    \/ StatusWrite
    \/ StatusCheck
    \/ StatusStarted

\* The runtime keeps scheduling both tasks; pushes upstream and crashes of the
\* service are not bound to happen.
SpecDeployedFair ==
    /\ SpecDeployed
    /\ WF_vars(MonitorTask)
    /\ WF_vars(StatusTask)

\* ------------------------------ build.rs, draining a child alone: SpecDrain
\* The child writes at most this many lines to each stream, and a pipe holds
\* at most PipeCap unread lines; a write to a full pipe blocks the child.
MaxOutLines == 1
MaxErrLines == 2
PipeCap == 1

\* git (build.rs lines 52-57, 106-111) or cargo (169-174) has been spawned
\* with both streams piped. The child will write out_goal lines to stdout and
\* err_goal lines to stderr, may close a stream once it has written its
\* lines, and then exits with its code. The lines of stderr are numbered in
\* the order written.
Children ==
    [code : {0, 1}, out_goal : 0..MaxOutLines, err_goal : 0..MaxErrLines,
     out_written : {0}, err_written : {0}, out_open : {TRUE}, err_open : {TRUE},
     exited : {FALSE}]

InitDrain ==
    /\ InitOS /\ InitPoller /\ InitStorage /\ InitMonitor /\ InitStatus /\ InitCaller
    /\ InitConfig /\ InitLock /\ InitWeb
    /\ child \in Children
    /\ drain_kind \in {"git", "cargo"}
    /\ stdout_pipe = 0
    /\ stderr_pipe = <<>>
    /\ drain_pc = "loop"
    /\ error_output = <<>>
    /\ drain_result = None

\* What no step of the child or of the drain touches.
drain_frame ==
    <<os_vars, poller_vars, storage_vars, monitor_vars, status_vars, caller_vars, config_vars,
      web_vars, lock_vars, drain_kind>>

\* The child writes a line to stdout, when the pipe has room.
ChildWritesStdout ==
    /\ ~child.exited /\ child.out_open
    /\ child.out_written < child.out_goal
    /\ stdout_pipe < PipeCap
    /\ stdout_pipe' = stdout_pipe + 1
    /\ child' = [child EXCEPT !.out_written = @ + 1]
    /\ UNCHANGED <<drain_frame, stderr_pipe, drain_pc, error_output, drain_result>>

\* The child writes its next line to stderr, when the pipe has room.
ChildWritesStderr ==
    /\ ~child.exited /\ child.err_open
    /\ child.err_written < child.err_goal
    /\ Len(stderr_pipe) < PipeCap
    /\ stderr_pipe' = Append(stderr_pipe, child.err_written + 1)
    /\ child' = [child EXCEPT !.err_written = @ + 1]
    /\ UNCHANGED <<drain_frame, stdout_pipe, drain_pc, error_output, drain_result>>

\* The child closes its stdout, having written what it had for it.
ChildClosesStdout ==
    /\ ~child.exited /\ child.out_open
    /\ child.out_written = child.out_goal
    /\ child' = [child EXCEPT !.out_open = FALSE]
    /\ UNCHANGED <<drain_frame, stdout_pipe, stderr_pipe, drain_pc, error_output, drain_result>>

\* The child closes its stderr, having written what it had for it.
ChildClosesStderr ==
    /\ ~child.exited /\ child.err_open
    /\ child.err_written = child.err_goal
    /\ child' = [child EXCEPT !.err_open = FALSE]
    /\ UNCHANGED <<drain_frame, stdout_pipe, stderr_pipe, drain_pc, error_output, drain_result>>

\* The child exits, all its lines written; the exit closes both streams.
ChildExits ==
    /\ ~child.exited
    /\ child.out_written = child.out_goal /\ child.err_written = child.err_goal
    /\ child' = [child EXCEPT !.exited = TRUE, !.out_open = FALSE, !.err_open = FALSE]
    /\ UNCHANGED <<drain_frame, stdout_pipe, stderr_pipe, drain_pc, error_output, drain_result>>

\* build.rs lines 191-221 (and 69-95, 119-145): one turn of the loop around
\* tokio::select!, which takes any branch that is ready. A line of stdout is
\* logged.
DrainStdoutLine ==
    /\ drain_pc = "loop"
    /\ stdout_pipe > 0
    /\ stdout_pipe' = stdout_pipe - 1
    /\ UNCHANGED <<drain_frame, child, stderr_pipe, drain_pc, error_output, drain_result>>

\* stdout_lines.next_line() gives Ok(None): break.
DrainStdoutEof ==
    /\ drain_pc = "loop"
    /\ stdout_pipe = 0 /\ ~child.out_open
    /\ drain_pc' = "wait"
    /\ UNCHANGED <<drain_frame, child, stdout_pipe, stderr_pipe, error_output, drain_result>>

\* A line of stderr is logged and, by build_project, pushed to error_output.
DrainStderrLine ==
    /\ drain_pc = "loop"
    /\ stderr_pipe # <<>>
    /\ stderr_pipe' = Tail(stderr_pipe)
    /\ error_output' = IF drain_kind = "cargo" THEN Append(error_output, Head(stderr_pipe))
                       ELSE error_output
    /\ UNCHANGED <<drain_frame, child, stdout_pipe, drain_pc, drain_result>>

\* stderr_lines.next_line() gives Ok(None): break.
DrainStderrEof ==
    /\ drain_pc = "loop"
    /\ stderr_pipe = <<>> /\ ~child.err_open
    /\ drain_pc' = "wait"
    /\ UNCHANGED <<drain_frame, child, stdout_pipe, stderr_pipe, error_output, drain_result>>

\* What the function returns once output_task is over and child.wait() has
\* given the exit status: build.rs lines 100-102, 150-152 for git, 229-247
\* for cargo.
drain_returns(kind, code, output) ==
    IF kind = "git" THEN [how |-> "exit", ok |-> code = 0]
    ELSE [how |-> "exit", status |-> IF code = 0 THEN "Success" ELSE "Failed",
          error_message |-> IF code = 0 THEN None ELSE Some(output)]

\* tokio::join!(output_task, child.wait()) is complete.
DrainJoined ==
    /\ drain_pc = "wait"
    /\ child.exited
    /\ drain_pc' = "returned"
    /\ drain_result' = Some(drain_returns(drain_kind, child.code, error_output))
    /\ UNCHANGED <<drain_frame, child, stdout_pipe, stderr_pipe, error_output>>

\* "Build timeout", the synthetic message: a line no compiler writes.
TimeoutMessage == <<0>>

\* build.rs lines 224-227, 248-255: the build's deadline passes before the
\* join is complete; the child is killed. clone_or_update_repo has none.
BuildTimeout ==
    /\ drain_kind = "cargo"
    /\ drain_pc \in {"loop", "wait"}
    /\ drain_pc' = "returned"
    /\ child' = [child EXCEPT !.exited = TRUE, !.out_open = FALSE, !.err_open = FALSE]
    /\ drain_result' = Some([how |-> "timeout", status |-> "Failed",
                             error_message |-> Some(TimeoutMessage)])
    /\ UNCHANGED <<drain_frame, stdout_pipe, stderr_pipe, error_output>>

NextDrain ==
    \/ ChildWritesStdout
    \/ ChildWritesStderr
    \/ ChildClosesStdout
    \/ ChildClosesStderr
    \/ ChildExits
    \/ DrainStdoutLine
    \/ DrainStdoutEof
    \/ DrainStderrLine
    \/ DrainStderrEof
    \/ DrainJoined
    \/ BuildTimeout

SpecDrain == InitDrain /\ [][NextDrain]_vars

\* A child that can write, close or exit does so, and the runtime polls the
\* drain and the join whenever they are ready. The deadline is not forced.
SpecDrainFair ==
    /\ SpecDrain
    /\ WF_vars(ChildWritesStdout) /\ WF_vars(ChildWritesStderr)
    /\ WF_vars(ChildClosesStdout) /\ WF_vars(ChildClosesStderr) /\ WF_vars(ChildExits)
    /\ WF_vars(DrainStdoutLine) /\ WF_vars(DrainStdoutEof)
    /\ WF_vars(DrainStderrLine) /\ WF_vars(DrainStderrEof)
    /\ WF_vars(DrainJoined)

\* ------------------------------------------ storage.rs on its own: SpecStore
\* Number of identities save_build_status is called with beyond the last of
\* a full history.
MaxNewIds == 2

\* A history the program can hold: n records with distinct identities,
\* sorted by started_at descending (record i started at n - i + 1).
SeedHistory(n) ==
    [i \in 1..n |->
       [id |-> i, commit_sha |-> 1, status |-> "Success", started_at |-> n - i + 1,
        finished_at |-> Some(n - i + 1), error_message |-> None]]

StoreSeeds == {<<>>, SeedHistory(HistoryCap - 1)}

\* The records save_build_status is called with: an identity the history may
\* already hold or a new one, and a start timestamp older than, equal to or
\* newer than those of the records in the history.
StoreIds == (HistoryCap - 1)..(HistoryCap - 1 + MaxNewIds)
StoreStamps == {0, 1, HistoryCap - 1, HistoryCap}

InitStore ==
    /\ InitOS /\ InitPoller /\ InitMonitor /\ InitStatus /\ InitCaller /\ InitConfig /\ InitLock /\ InitWeb /\ InitNoDrain
    /\ system_status = DefaultSystemStatus
    /\ builds \in StoreSeeds
    /\ data_file = Document([builds |-> builds, system_status |-> system_status])

\* Storage::save_build_status called with some record.
StoreSave ==
    /\ \E id \in StoreIds, t \in StoreStamps, st \in {"Success", "Failed"} :
         builds' = save_build_status(builds,
                     [id |-> id, commit_sha |-> 1, status |-> st, started_at |-> t,
                      finished_at |-> Some(t),
                      error_message |-> IF st = "Failed" THEN Some("stderr") ELSE None])
    /\ UNCHANGED <<os_vars, poller_vars, system_status, monitor_vars, status_vars, caller_vars, config_vars, drain_vars, web_vars, lock_vars>>
    /\ save

NextStore == StoreSave

SpecStore == InitStore /\ [][NextStore]_vars

\* ------------------------------------- storage.rs at startup: SpecStartup
\* Number of BuildStatus identities saved between two starts of the agent.
MaxStartupIds == 2

\* The data files the agent can find when it starts for the first time.
StartupFiles ==
    {[kind |-> "absent"], [kind |-> "text"], [kind |-> "bytes"],
     Document(DefaultStorageData)}

InitStartup ==
    /\ InitOS /\ InitPoller /\ InitMonitor /\ InitStatus /\ InitCaller /\ InitConfig /\ InitLock /\ InitWeb /\ InitNoDrain
    /\ system_status = DefaultSystemStatus
    /\ builds = <<>>
    /\ data_file \in StartupFiles

\* The agent starts: main calls Storage::new (main.rs line 54); on Err main
\* returns and there is no store.
StorageNew ==
    /\ \E save_ok \in BOOLEAN :
         LET r == Storage_new(data_file, save_ok) IN
           /\ IF r.ok
              THEN system_status' = r.data.system_status /\ builds' = r.data.builds
              ELSE UNCHANGED <<system_status, builds>>
           /\ data_file' = r.file
           /\ sup_ret' = Some([op |-> "Storage::new", ok |-> r.ok,
                               file |-> data_file.kind, save_ok |-> save_ok])
    /\ UNCHANGED <<os_vars, poller_vars, monitor_vars, status_vars, config_vars, drain_vars, web_vars, lock_vars>>

\* The running agent changes the store: a BuildStatus is saved, or the service
\* is marked started or stopped.
StoreUpdate ==
    /\ sup_ret # None /\ sup_ret[1].ok
    /\ \/ /\ \E id \in 1..MaxStartupIds, st \in {"Success", "Failed"} :
               builds' = save_build_status(builds,
                           [id |-> id, commit_sha |-> 1, status |-> st, started_at |-> now,
                            finished_at |-> Some(now),
                            error_message |-> IF st = "Failed" THEN Some("stderr") ELSE None])
          /\ UNCHANGED system_status
       \/ /\ system_status' \in {set_service_started(system_status, now),
                                 set_service_stopped(system_status)}
          /\ UNCHANGED builds
    /\ UNCHANGED <<os_vars, poller_vars, monitor_vars, status_vars, caller_vars, config_vars, drain_vars, web_vars, lock_vars>>
    /\ save

\* The data file is damaged or removed behind the agent's back.
FileDamage ==
    /\ data_file' \in {[kind |-> "absent"], [kind |-> "text"], [kind |-> "bytes"]}
    /\ data_file' # data_file
    /\ UNCHANGED <<os_vars, poller_vars, system_status, builds, monitor_vars, status_vars, caller_vars, config_vars, drain_vars, web_vars, lock_vars>>

NextStartup ==
    \/ StorageNew
    \/ StoreUpdate
    \/ FileDamage

SpecStartup == InitStartup /\ [][NextStartup]_vars

\* ---------------------------------- main.rs, the two loops alone: SpecLoops
\* The largest max_retries of the configurations explored.
MaxRetries == 3

\* What an iteration can come to, and the Result it then returns: a poller
\* network error, a storage I/O error and a cargo spawn failure leave with
\* `?`; a failed sync, build or start is recorded and the tick returns Ok(()).
IterationOutcomes ==
    {"done", "network error", "storage error", "spawn failure", "sync failure",
     "build failure", "start failure"}

iteration_result(outcome) ==
    IF outcome \in {"network error", "storage error", "spawn failure"} THEN "err" ELSE "ok"

InitLoops ==
    /\ InitOS /\ InitPoller /\ InitStorage /\ InitMonitor /\ InitStatus /\ InitCaller
    /\ max_retries \in 0..MaxRetries
    /\ InitLock /\ InitWeb /\ InitNoDrain

\* monitor_iteration runs to its end and main matches on its Result.
MonitorIterationEnds ==
    /\ m_pc = "write"
    /\ \E outcome \in IterationOutcomes : MonitorReturn(iteration_result(outcome))
    /\ UNCHANGED <<caller_vars, config_vars, drain_vars, web_vars, lock_vars, os_vars, poller_vars, storage_vars, build_manager,
                   status_vars>>

\* status_monitor_iteration runs to its end; it fails only on a storage error.
StatusIterationEnds ==
    /\ s_pc \in {"write", "check"}
    /\ \E outcome \in {"done", "storage error"} : StatusReturn(iteration_result(outcome))
    /\ UNCHANGED <<caller_vars, config_vars, drain_vars, web_vars, lock_vars, os_vars, poller_vars, storage_vars, monitor_vars,
                   build_manager_clone>>

NextLoops ==
    \/ MonitorProbe
    \/ MonitorIterationEnds
    \/ StatusProbe
    \/ StatusIterationEnds

\* The runtime polls both tasks: a sleep that is over lets the next tick
\* begin, and an iteration that runs comes to its end.
SpecLoops ==
    /\ InitLoops /\ [][NextLoops]_vars
    /\ WF_vars(MonitorProbe) /\ WF_vars(MonitorIterationEnds)
    /\ WF_vars(StatusProbe) /\ WF_vars(StatusIterationEnds)

\* ------------------------------------------------ web.rs on its own: SpecWeb
\* The limits a client sends to GET /api/builds (none, or a number).
MaxLimit == 2
Limits == {None} \cup {Some(n) : n \in 0..MaxLimit} \cup {Some(HistoryCap + 100)}

Min(a, b) == IF a <= b THEN a ELSE b

\* storage.rs lines 86-92: the first `limit` records.
get_latest_builds(limit) == SubSeq(builds, 1, Min(limit, Len(builds)))

\* storage.rs lines 100-102.
get_system_status == system_status

\* What no handler touches.
web_frame ==
    <<os_vars, poller_vars, storage_vars, monitor_vars, status_vars, caller_vars, config_vars, drain_vars,
      lock_vars>>

\* web.rs lines 66-77: GET /, the page is rendered from the status and the
\* ten latest builds read under the read guard.
index ==
    /\ storage_lock \notin {"monitor", "status"}
    /\ web_response' = Some([handler |-> "index", status |-> get_system_status,
                             builds |-> get_latest_builds(10)])
    /\ UNCHANGED web_frame

\* web.rs lines 79-88: GET /api/status.
get_status ==
    /\ storage_lock \notin {"monitor", "status"}
    /\ web_response' = Some([handler |-> "get_status", success |-> TRUE,
                             data |-> get_system_status])
    /\ UNCHANGED web_frame

\* web.rs lines 90-104: GET /api/builds, limit.unwrap_or(50).min(100).
get_builds ==
    /\ storage_lock \notin {"monitor", "status"}
    /\ \E l \in Limits :
         LET limit == Min(IF l = None THEN 50 ELSE l[1], 100) IN
           web_response' = Some([handler |-> "get_builds", success |-> TRUE,
                                 data |-> get_latest_builds(limit)])
    /\ UNCHANGED web_frame

\* A faulty POST /api/restart that marks a rebuild in the store; C20 must
\* reject it.
restart_service_marks_building ==
    /\ storage_lock = "free"
    /\ web_response' = Some([handler |-> "restart_service", success |-> TRUE,
                             data |-> "Restart request received"])
    /\ system_status' = update_system_status([system_status EXCEPT !.build_status = "Building"])
    /\ UNCHANGED <<os_vars, poller_vars, builds, monitor_vars, status_vars, caller_vars,
                   config_vars, drain_vars, lock_vars>>
    /\ save

\* web.rs lines 106-113: POST /api/restart answers and does nothing else; its
\* state argument is unused.
restart_service ==
    /\ web_response' = Some([handler |-> "restart_service", success |-> TRUE,
                             data |-> "Restart request received"])
    /\ UNCHANGED web_frame

\* The states the handlers are asked in: some history, some status, a
\* service that may be tracked and alive.
WebStatuses ==
    {[DefaultSystemStatus EXCEPT !.build_status = b, !.is_running = r,
                                 !.process_pid = IF r THEN Some(1) ELSE None]
       : b \in {"Pending", "Building", "Success", "Failed"}, r \in BOOLEAN}

InitWebServer ==
    /\ InitStatus /\ InitCaller /\ InitConfig /\ InitLock /\ InitWeb /\ InitNoDrain
    /\ system_status \in WebStatuses
    /\ builds \in StoreSeeds
    /\ data_file = Document([builds |-> builds, system_status |-> system_status])
    /\ upstream_tip = 1
    /\ last_commit_sha \in {None, Some(1)}
    /\ poll_log = <<>>
    /\ alive = IF system_status.is_running THEN {1} ELSE {}
    /\ build_manager = IF system_status.is_running THEN Some(1) ELSE None
    /\ m_pc = "idle"
    /\ m_is_running = FALSE
    /\ m_new_status = DefaultSystemStatus
    /\ m_commit = None
    /\ m_last = None
    /\ m_build = None
    /\ m_new_pid = None
    /\ m_calls = <<>>
    /\ m_result = "none"
    /\ retry_count = 0
    /\ next_pid = 2
    /\ compiler_alive = FALSE
    /\ repo_cloned = TRUE
    /\ binary_built = TRUE
    /\ repo_head = Some(1)
    /\ binary_commit = Some(1)
    /\ now = 1
    /\ next_id = 1

NextWeb ==
    \/ index
    \/ get_status
    \/ get_builds
    \/ restart_service

SpecWeb == InitWebServer /\ [][NextWeb]_vars

\* ------------------------------------------- github.rs on its own: SpecPoller
\* Number of poller calls recorded.
MaxPolls == 3

\* GitHubMonitor::check_for_updates called by some caller.
PollerCheck ==
    /\ Len(poll_log) < MaxPolls
    /\ \E resp \in Responses(upstream_tip) :
         LET r == check_for_updates(last_commit_sha, resp) IN
           /\ last_commit_sha' = r.last
           /\ poll_log' = Append(poll_log, [op |-> "check_for_updates", ret |-> r.ret,
                                           commit |-> r.commit, tip |-> upstream_tip,
                                           resp |-> resp.kind])
    /\ UNCHANGED <<os_vars, upstream_tip, storage_vars, monitor_vars, status_vars, caller_vars, config_vars, drain_vars, web_vars, lock_vars>>

\* GitHubMonitor::get_latest_commit called by some caller.
PollerLatest ==
    /\ Len(poll_log) < MaxPolls
    /\ \E resp \in Responses(upstream_tip) :
         LET r == get_latest_commit(last_commit_sha, resp) IN
           /\ last_commit_sha' = r.last
           /\ poll_log' = Append(poll_log, [op |-> "get_latest_commit", ret |-> r.ret,
                                           commit |-> r.commit, tip |-> upstream_tip,
                                           resp |-> resp.kind])
    /\ UNCHANGED <<os_vars, upstream_tip, storage_vars, monitor_vars, status_vars, caller_vars, config_vars, drain_vars, web_vars, lock_vars>>

NextPoller ==
    \/ PollerCheck
    \/ PollerLatest
    \/ TipMove

SpecPoller == Init /\ [][NextPoller]_vars

\* --------------------------------- build.rs on its own: SpecSupervisor
\* main builds two BuildManagers (lines 43 and 75); a caller calls the public
\* methods of either, in any order.
Managers == {"build_manager", "build_manager_clone"}

CurrentProcess(m) == IF m = "build_manager" THEN build_manager ELSE build_manager_clone

SetCurrentProcess(m, v) ==
    IF m = "build_manager"
    THEN build_manager' = v /\ UNCHANGED build_manager_clone
    ELSE build_manager_clone' = v /\ UNCHANGED build_manager

sup_frame ==
    <<config_vars, drain_vars, web_vars, lock_vars, compiler_alive, repo_cloned, repo_head, now, next_id, poller_vars, storage_vars,
      m_pc, m_is_running, m_new_status, m_commit, m_last, m_build, m_new_pid, m_calls, m_result, retry_count,
      s_pc, s_is_running, s_current_status, s_pid, s_calls, s_failed>>

\* A caller of start_new_process.
SupStart ==
    /\ \E m \in Managers, spawn_ok \in SpawnResults :
         LET r == start_new_process(CurrentProcess(m), binary_built, spawn_ok, next_pid) IN
           /\ SetCurrentProcess(m, r.current_process)
           /\ IF r.ok
              THEN alive' = alive \cup {next_pid} /\ next_pid' = next_pid + 1
              ELSE UNCHANGED <<alive, next_pid>>
           /\ sup_ret' = Some([op |-> "start_new_process", on |-> m, ok |-> r.ok])
    /\ UNCHANGED <<sup_frame, binary_built, binary_commit>>

\* A caller of stop_current_process; the kill can fail.
SupStop ==
    /\ \E m \in Managers, kill_ok \in BOOLEAN :
         LET r == stop_current_process(CurrentProcess(m), alive, kill_ok) IN
           /\ SetCurrentProcess(m, r.current_process)
           /\ alive' = r.alive
           /\ sup_ret' = Some([op |-> "stop_current_process", on |-> m, ok |-> TRUE])
    /\ UNCHANGED <<sup_frame, binary_built, binary_commit, next_pid>>

\* A caller of is_process_running; try_wait can fail.
SupProbe ==
    /\ \E m \in Managers, err \in BOOLEAN :
         LET r == is_process_running(CurrentProcess(m), alive, err) IN
           /\ SetCurrentProcess(m, r.current_process)
           /\ sup_ret' = Some([op |-> "is_process_running", on |-> m, ok |-> r.running])
    /\ UNCHANGED <<sup_frame, binary_built, binary_commit, alive, next_pid>>

\* cargo produces the binary (an earlier deploy).
SupBinaryBuilt ==
    /\ ~binary_built
    /\ binary_built' = TRUE
    /\ binary_commit' = Some(1)
    /\ UNCHANGED <<sup_frame, alive, next_pid, build_manager, build_manager_clone, sup_ret>>

\* A caller of cleanup_old_process (prepare_for_start, main.rs line 58).
SupCleanup ==
    /\ \E m \in Managers, pid \in Pids, term_ok \in BOOLEAN, dies_on_term \in BOOLEAN,
          ps_again_ok \in BOOLEAN :
       \E ps_found \in PsResults(pid, alive) :
         LET r == cleanup_old_process(pid, alive, ps_found, term_ok, dies_on_term, ps_again_ok) IN
           /\ alive' = r.procs
           /\ sup_ret' = Some([op |-> "cleanup_old_process", on |-> m, ok |-> r.ok,
                               pid |-> pid, signals |-> r.signals])
    /\ UNCHANGED <<sup_frame, binary_built, binary_commit, next_pid, build_manager, build_manager_clone>>

NextSupervisor ==
    \/ SupStart
    \/ SupStop
    \/ SupProbe
    \/ SupBinaryBuilt
    \/ SupCleanup
    \/ ProcessExit

SpecSupervisor == Init /\ [][NextSupervisor]_vars

\* ------------------------------ storage.rs with a disk that can fail: SpecPersist
\* A faulty save that returns Ok without writing the file; C32 must reject it.
save_result_skips_write(save_ok) ==
    data_file' = IF save_ok THEN data_file ELSE [kind |-> "text"]

\* Storage::save (storage.rs lines 61-65) when fs::write can fail: on success
\* the file holds the whole StorageData as the mutator left it; on failure the
\* file is as before, or cut short by the write that failed.
save_result(save_ok) ==
    data_file' \in IF save_ok
                   THEN {Document([builds |-> builds', system_status |-> system_status'])}
                   ELSE {data_file, [kind |-> "text"]}

\* The store exists: Storage::new has not failed since the agent last started.
StoreExists ==
    ~(sup_ret # None /\ sup_ret[1].op = "Storage::new" /\ ~sup_ret[1].ok)

\* The statuses update_system_status is called with (main.rs lines 159, 207-212).
StoreStatuses ==
    {[system_status EXCEPT !.build_status = st, !.current_commit = Some(1)] :
       st \in {"Building", "Failed"}}

\* One of the four mutators of Storage (storage.rs lines 67-115): each changes
\* self.data first and then calls self.save().await?, so it returns Err exactly
\* when the write failed.
StoreMutate ==
    /\ StoreExists
    /\ \E save_ok \in BOOLEAN, op \in {"save_build_status", "update_system_status",
                                      "set_service_started", "set_service_stopped"} :
         /\ \/ /\ op = "save_build_status"
               /\ \E id \in 1..MaxStartupIds, st \in {"Success", "Failed"} :
                    builds' = save_build_status(builds,
                                [id |-> id, commit_sha |-> 1, status |-> st, started_at |-> now,
                                 finished_at |-> Some(now),
                                 error_message |-> IF st = "Failed" THEN Some("stderr") ELSE None])
               /\ UNCHANGED system_status
            \/ /\ op = "update_system_status"
               /\ \E status \in StoreStatuses : system_status' = update_system_status(status)
               /\ UNCHANGED builds
            \/ /\ op = "set_service_started"
               /\ system_status' = set_service_started(system_status, now)
               /\ UNCHANGED builds
            \/ /\ op = "set_service_stopped"
               /\ system_status' = set_service_stopped(system_status)
               /\ UNCHANGED builds
         /\ save_result(save_ok)
         /\ sup_ret' = Some([op |-> op, ok |-> save_ok,
                             was_saved |-> (data_file = Document([builds |-> builds,
                                                                   system_status |-> system_status]))])
    /\ UNCHANGED <<os_vars, poller_vars, monitor_vars, status_vars, config_vars, drain_vars, web_vars, lock_vars>>

NextPersist ==
    \/ StoreMutate
    \/ StorageNew

SpecPersist == Init /\ [][NextPersist]_vars

\* ------------------------------- main.rs, the start over an orphan: SpecOrphan
\* main.rs lines 38-57 after an earlier run that was killed: Storage::new has
\* loaded what that run persisted, the pid it recorded may still name a live
\* process, and prepare_for_start has not run yet (sup_ret = None).
InitOrphan ==
    /\ InitPoller /\ InitMonitor /\ InitStatus /\ InitCaller /\ InitConfig /\ InitLock /\ InitWeb /\ InitNoDrain
    /\ \E pid \in {None, Some(1)}, running \in BOOLEAN, status \in {"Success", "Building"} :
         system_status = [DefaultSystemStatus EXCEPT
                            !.current_commit = Some(1),
                            !.build_status = status,
                            !.is_running = running,
                            !.started_at = Some(0),
                            !.process_pid = pid]
    /\ builds = <<EarlierBuild("Success")>>
    /\ data_file = Document([builds |-> builds, system_status |-> system_status])
    /\ alive \in SUBSET {1}
    /\ next_pid = 2
    /\ compiler_alive = FALSE
    /\ repo_cloned = TRUE
    /\ binary_built = TRUE
    /\ repo_head = Some(1)
    /\ binary_commit = Some(1)
    /\ now = 0
    /\ next_id = 1

\* BuildManager::prepare_for_start (build.rs lines 476-487), called once by
\* main (line 58) before the tasks are spawned: read the status, and clean up
\* the recorded pid if there is one.
prepare_for_start ==
    /\ sup_ret = None
    /\ read_guard("main")
    /\ IF system_status.process_pid # None
       THEN \E term_ok \in BOOLEAN, dies_on_term \in BOOLEAN, ps_again_ok \in BOOLEAN :
            \E ps_found \in PsResults(system_status.process_pid[1], alive) :
              LET old_pid == system_status.process_pid[1]
                  r == cleanup_old_process(old_pid, alive, ps_found, term_ok, dies_on_term, ps_again_ok) IN
                /\ alive' = r.procs
                /\ sup_ret' = Some([op |-> "prepare_for_start", ok |-> r.ok,
                                    present |-> old_pid \in alive, signals |-> r.signals])
       ELSE /\ UNCHANGED alive
            /\ sup_ret' = Some([op |-> "prepare_for_start", ok |-> TRUE,
                                present |-> FALSE, signals |-> <<>>])
    /\ UNCHANGED <<next_pid, compiler_alive, repo_cloned, repo_head, binary_built, binary_commit, now, next_id,
                   poller_vars, storage_vars, monitor_vars, status_vars,
                   config_vars, drain_vars, web_vars, lock_vars>>

\* main.rs lines 76-88: the health task, spawned after prepare_for_start
\* returned, and the service processes' own exits.
OrphanLoops ==
    /\ sup_ret # None
    /\ \/ StatusProbe
       \/ StatusWrite
       \/ StatusCheck
       \/ StatusStarted
       \/ ProcessExit

NextOrphan ==
    \/ prepare_for_start
    \/ OrphanLoops

SpecOrphan == InitOrphan /\ [][NextOrphan]_vars

\* ================================================================ properties
Range(s) == {s[i] : i \in DOMAIN s}

Count(s, x) == Cardinality({i \in DOMAIN s : s[i] = x})

\* The reconciliation tick is between persisting build_status = Building
\* (MonitorBuilding) and persisting its final status (MonitorFinal).
DeployInFlight == m_pc \in {"stop", "sync", "build", "wait", "start", "save", "final"}

\* This step ends a reconciliation tick.
TickEnds == m_pc # "idle" /\ m_pc' = "idle"

\* This step is the health tick reaching line 299, start_new_process.
HealthStart ==
    /\ s_pc = "check" /\ s_pc' # "check"
    /\ status_wants_restart(s_is_running, s_current_status)
    /\ repo_cloned /\ binary_built

\* This step is one of the health tick.
HealthStep == s_pc' # s_pc

\* ------------------------------------------------------------------ C1
\* C1: in every reachable state at most one service child spawned by the
\* agent is alive; a child started by a deploy and a child started by the
\* health loop never coexist.
C1_AtMostOneChild == Cardinality(alive) <= 1

\* ------------------------------------------------------------------ C2
\* C2: the health loop never calls start_new_process while a deploy is in
\* flight, that is between the reconciliation tick persisting Building and
\* persisting its final status, whatever status the health tick had read.
C2_NoStartDuringDeploy == [][HealthStart => ~DeployInFlight]_vars

\* ------------------------------------------------------------------ C3
\* C3: when the child that the last successful deploy started has exited, no
\* deploy is in flight, the stored build_status is not Building and the
\* repository and the binary exist, the health tick that begins then observes
\* not-running (on which its persisting is_running = false and its restart
\* depend).
C3_HealthObservesExit ==
    [][(/\ s_pc = "idle" /\ s_pc' # "idle"
        /\ build_manager # None /\ build_manager[1] \notin alive
        /\ m_pc = "idle"
        /\ system_status.build_status # "Building"
        /\ repo_cloned /\ binary_built)
       => ~s_is_running']_vars

\* ------------------------------------------------------------------ C4
\* C4: a step of the health tick never syncs, builds or restarts the service
\* through restart_service: it leaves the build history, the repository, the
\* binary, the compiler, the uuid source and the reconciliation task alone,
\* kills no child, and calls only is_process_running and start_new_process.
C4_HealthNeverBuilds ==
    [][HealthStep =>
         /\ builds' = builds
         /\ repo_cloned' = repo_cloned
         /\ binary_built' = binary_built
         /\ compiler_alive' = compiler_alive
         /\ next_id' = next_id
         /\ monitor_vars' = monitor_vars
         /\ alive \subseteq alive'
         /\ Range(s_calls') \subseteq {"is_process_running", "start_new_process"}]_vars

\* A health tick has started the existing binary and is about to persist it.
C4_Witness ==
    /\ s_pc = "started"
    /\ s_pid # None
    /\ "start_new_process" \in Range(s_calls)

\* ------------------------------------------------------------------ C5
\* This step ends a reconciliation tick whose check_for_updates found the tip
\* moved from the commit the poller remembered to another one.
TickOfTipMoveEnds ==
    /\ TickEnds
    /\ m_last # None /\ m_commit # None /\ m_commit # m_last
    /\ "get_latest_commit" \notin Range(m_calls)

\* The tick has appended exactly one BuildStatus, the one of its deploy, with
\* the polled commit; after a successful deploy the status it leaves has that
\* commit, Success, is_running, a start timestamp and the new pid.
DeployedOnce ==
    /\ Count(m_calls, "save_build_status") = 1
    /\ \E i \in DOMAIN builds' :
         /\ builds'[i].id = m_build[1].id
         /\ builds'[i].commit_sha = m_commit[1]
    /\ m_build[1].status = "Success" =>
         /\ system_status'.current_commit = m_commit
         /\ system_status'.build_status = "Success"
         /\ system_status'.is_running
         /\ system_status'.started_at # None
         /\ m_new_pid # None
         /\ system_status'.process_pid = m_new_pid

\* C5: a reconciliation tick whose poll found the tip moved from the commit A
\* the poller remembered to a commit B ends having appended exactly one
\* BuildStatus, with commit_sha = B; if the deploy succeeded the status it
\* leaves has current_commit = B, build_status = Success, is_running = true,
\* a start timestamp and the pid of the new process.
C5_TipMoveDeploysOnce == [][TickOfTipMoveEnds => DeployedOnce]_vars

C7_TimeoutFailsAndKills ==
    "timeout" \in Range(m_calls) =>
        /\ m_build # None
        /\ m_build[1].status = "Failed"
        /\ m_build[1].error_message = Some("Build timeout")
        /\ m_build[1].finished_at # None
        /\ ~compiler_alive

\* build_project has returned from a build that timed out.
C7_Witness == m_pc = "save" /\ "timeout" \in Range(m_calls)

\* ------------------------------------------------------------------ C8
\* C8 as the spec states it: the history has at most 100 records and every
\* record started strictly later than the record after it.
C8_StrictlySorted ==
    /\ Len(builds) <= HistoryCap
    /\ \A i \in 1..(Len(builds) - 1) : builds[i].started_at > builds[i + 1].started_at

\* C8 as the code has it: the history has at most 100 records and no record
\* started earlier than the record after it; records with equal start
\* timestamps stay next to each other.
C8_BoundedSorted ==
    /\ Len(builds) <= HistoryCap
    /\ \A i \in 1..(Len(builds) - 1) : builds[i].started_at >= builds[i + 1].started_at

\* A full history that holds a saved record and two records with the same
\* start timestamp.
C8_Witness ==
    /\ Len(builds) = HistoryCap
    /\ \E i \in DOMAIN builds : builds[i].id > HistoryCap - 1
    /\ \E i \in 1..(Len(builds) - 1) : builds[i].started_at = builds[i + 1].started_at

\* ------------------------------------------------------------------ C9
\* Call j of the poller is a check_for_updates made after call i, a
\* check_for_updates that returned the commit of a tip that has not moved since.
LaterCheckOnSameTip(i, j) ==
    /\ i < j
    /\ poll_log[i].op = "check_for_updates" /\ poll_log[i].ret = "Some"
    /\ poll_log[j].op = "check_for_updates"
    /\ \A k \in i..j : poll_log[k].tip = poll_log[i].tip

\* C9 as the spec states it: once check_for_updates has returned the commit of
\* tip X, every later check_for_updates made while the tip is X returns None.
C9_LaterChecksReturnNone ==
    \A i \in DOMAIN poll_log, j \in DOMAIN poll_log :
        LaterCheckOnSameTip(i, j) => poll_log[j].ret = "None"

\* C9 as the code has it: such a later call never returns a commit; it
\* returns None when upstream answered with the commit or a non-success
\* status, and an error when the request itself failed or the body of a
\* success answer could not be read.
C9_LaterChecksReturnNoCommit ==
    \A i \in DOMAIN poll_log, j \in DOMAIN poll_log :
        LaterCheckOnSameTip(i, j) =>
            /\ poll_log[j].commit = None
            /\ poll_log[j].ret = IF poll_log[j].resp \in {"neterr", "badbody"} THEN "Err" ELSE "None"

\* check_for_updates returned a commit, get_latest_commit was called, and a
\* second check_for_updates on the same tip got a success answer.
C9_Witness ==
    /\ Len(poll_log) = 3
    /\ LaterCheckOnSameTip(1, 3)
    /\ poll_log[2].op = "get_latest_commit"
    /\ poll_log[3].resp = "ok"

\* ------------------------------------------------------------------ C10
\* A step replaces a tracked child by another while the old one is alive.
Orphans(old, new, live) == old # None /\ new # None /\ new # old /\ old[1] \in live

\* C10: start_new_process on a BuildManager that already tracks a child never
\* leaves that child alive and untracked: the start is refused or the child
\* is dead when the handle is replaced.
C10_StartNeverOrphans ==
    [][/\ ~Orphans(build_manager, build_manager', alive')
       /\ ~Orphans(build_manager_clone, build_manager_clone', alive')]_vars


\* ------------------------------------------------------------------ C11
\* This step is a call of cleanup_old_process for a pid that the process
\* table does not hold.
CleanupOfAbsentPid ==
    /\ sup_ret' # sup_ret
    /\ sup_ret'[1].op = "cleanup_old_process"
    /\ sup_ret'[1].pid \notin alive

\* C11: cleanup_old_process(pid) for a pid absent from the process table
\* returns Ok, sends no signal, and changes neither a tracked handle nor the
\* storage nor any process.
C11_CleanupAbsentIsNoOp ==
    [][CleanupOfAbsentPid =>
         /\ sup_ret'[1].ok
         /\ sup_ret'[1].signals = <<>>
         /\ alive' = alive
         /\ build_manager' = build_manager
         /\ build_manager_clone' = build_manager_clone
         /\ storage_vars' = storage_vars]_vars

\* cleanup_old_process has returned for an absent pid while another process
\* is alive and tracked.
C11_Witness ==
    /\ sup_ret # None
    /\ sup_ret[1].op = "cleanup_old_process"
    /\ sup_ret[1].pid \notin alive
    /\ sup_ret[1].signals = <<>>
    /\ alive # {}
    /\ build_manager # None /\ build_manager[1] \in alive

\* ------------------------------------------------------------------ C12
\* This step is Storage::new finding a data file that exists and cannot be
\* parsed, on a disk that can be written.
StartOnCorruptFile ==
    /\ sup_ret' # sup_ret
    /\ sup_ret'[1].op = "Storage::new"
    /\ sup_ret'[1].save_ok
    /\ data_file.kind \in {"text", "bytes"}

\* C12: when the data file exists but cannot be parsed, Storage::new returns
\* a store holding the default state (no builds, Pending, not running, no
\* commit, no start timestamp) and has overwritten the file with that default.
C12_CorruptFileResets ==
    [][StartOnCorruptFile =>
         /\ sup_ret'[1].ok
         /\ builds' = <<>>
         /\ system_status' = DefaultSystemStatus
         /\ data_file' = Document(DefaultStorageData)]_vars

\* ------------------------------------------------------------------ C13
\* C13: whatever the ticks before returned, each loop executes a later tick
\* again and again: no failure of a tick ends a loop, and the
\* consecutive-failure counter never stops the reconciliation loop.
C13_LoopsGoOn ==
    /\ []<><<MonitorProbe>>_vars
    /\ []<><<StatusProbe>>_vars

\* Both loops sleep after a failed tick, the counter one short of max_retries.
C13_Witness ==
    /\ m_pc = "idle" /\ m_result = "err"
    /\ retry_count > 0 /\ retry_count = max_retries - 1
    /\ s_pc = "idle" /\ s_failed

\* ------------------------------------------------------------------ C14
\* C14: while the reconciliation task stops, syncs, builds or starts, it
\* holds no guard of the storage lock, so a health tick that is due and a
\* dashboard request can take the read guard.
C14_LockFreeDuringDeploy ==
    DeployInFlight =>
        /\ storage_lock = "free"
        /\ (s_pc = "idle" => ENABLED StatusProbe)
        /\ ENABLED get_status
        /\ ENABLED index
        /\ ENABLED get_builds

\* A health tick has read build_status = Building while the deploy goes on.
C14_Witness ==
    /\ m_pc \in {"stop", "sync", "build", "wait", "start"}
    /\ s_pc \in {"write", "check"}
    /\ s_current_status.build_status = "Building"
    /\ system_status.build_status = "Building"

\* ------------------------------------------------------------------ C15
\* A health step leaves a stored Building alone when the status the tick had
\* read was not Building.
HealthKeepsBuilding ==
    (/\ HealthStep
     /\ system_status.build_status = "Building"
     /\ s_current_status.build_status # "Building")
    => system_status'.build_status = "Building"

\* The store differs from the reconciliation tick's new_status in field f only
\* by a write of the health loop since the tick's last write; this step puts
\* the tick's old value back.
Reverted(f) == system_status[f] # m_new_status[f] /\ system_status'[f] = m_new_status[f]

\* A whole-record write of the reconciliation tick reverts none of the fields
\* the health loop maintains.
MonitorKeepsHealthFields ==
    (m_pc \in {"building", "final"} /\ m_pc' # m_pc)
    => \A f \in {"process_pid", "is_running", "started_at"} : ~Reverted(f)

\* C15: no whole-record write of the system status by one loop discards what
\* the other loop persisted after the writer took its snapshot: the health
\* loop never replaces Building by a stale other status, and the
\* reconciliation loop never reverts process_pid, is_running or started_at
\* written by a health tick in between.
C15_NoLostUpdate == [][HealthKeepsBuilding /\ MonitorKeepsHealthFields]_vars

\* ------------------------------------------------------------------ C16
\* C16: a reconciliation tick that polls while the upstream tip equals the
\* persisted current_commit and the repository and the binary exist ends at
\* the poll: it enters no deploy (no stop, sync, build or start) and leaves
\* the build history alone. This includes the first tick after the agent has
\* started.
C16_UpToDateTickIsNoOp ==
    [][(/\ m_pc = "poll" /\ m_pc' # "poll"
        /\ system_status.current_commit = Some(upstream_tip)
        /\ repo_cloned /\ binary_built)
       => (m_pc' = "idle" /\ builds' = builds)]_vars

\* ------------------------------------------------------------------ C17
\* The records in status Building: those of the persisted history and the
\* one the running restart_service / build_project call holds.
BuildingRecords ==
    {b \in Range(builds) : b.status = "Building"}
      \cup (IF m_build # None /\ m_build[1].status = "Building" THEN {m_build[1]} ELSE {})

\* This step is a call of build_project that spawned the compiler.
BuildBegins == m_pc' = "wait" /\ m_pc # "wait"

LatestRecordStatus == IF builds = <<>> THEN "Pending" ELSE builds[1].status

\* Between ticks the stored build_status is that of the latest record.
QuiescentStatusMatches ==
    (m_pc = "idle" /\ s_pc = "idle") => system_status.build_status = LatestRecordStatus

\* While a deploy is in flight the stored build_status is Building.
BuildingWhileDeploying == DeployInFlight => system_status.build_status = "Building"

\* The stored build_status is not Success over a latest record that Failed.
NoSuccessOverFailed ==
    ~(system_status.build_status = "Success" /\ LatestRecordStatus = "Failed")

\* C18: whenever neither loop is in the middle of a tick the stored
\* build_status equals the status of the most recently persisted BuildRecord
\* (Pending when the history is empty); while a deploy is in flight it is
\* Building; it is never Success while the latest record is Failed.
C18_StatusReflectsHistory ==
    QuiescentStatusMatches /\ BuildingWhileDeploying /\ NoSuccessOverFailed

\* ------------------------------------------------------------------ C19
\* This step ends a reconciliation tick that had persisted Building and
\* entered the deploy.
DeployTickEnds == DeployInFlight /\ TickEnds

\* The tick has called save_build_status once, and the history holds a record
\* of the tick's target commit with the identity the deploy ended with.
RecordPersistedOnce ==
    /\ Count(m_calls, "save_build_status") = 1
    /\ m_build # None
    /\ \E i \in DOMAIN builds :
         builds[i].id = m_build[1].id /\ builds[i].commit_sha = m_commit[1]

\* C19: every reconciliation tick that persisted Building and entered the
\* deploy has persisted exactly one BuildRecord for its target commit when it
\* ends, whatever the deploy came to.
C19_DeployAlwaysRecords == [][DeployTickEnds => RecordPersistedOnce]_vars

\* ------------------------------------------------------------------ C20
\* C20: no step of a dashboard/API handler (index, GET /api/status,
\* GET /api/builds, POST /api/restart) changes the stored status, the build
\* history, the persisted document, the poller's memory, the service and
\* compiler processes or either task's handle and position; none leaves a
\* guard of the storage lock held, and POST /api/restart stops, builds and
\* starts nothing.
C20_HandlersOnlyRead ==
    [][/\ UNCHANGED <<storage_vars, poller_vars, os_vars, monitor_vars, status_vars>>
       /\ storage_lock' = "free"]_vars

\* POST /api/restart has been answered while a tracked service is alive and
\* the stored status is not Building.
C20_Witness ==
    /\ web_response # None /\ web_response[1].handler = "restart_service"
    /\ alive # {} /\ build_manager # None
    /\ system_status.build_status = "Success"
    /\ last_commit_sha # None

\* ------------------------------------------------------------------ C21
\* This step is a call of check_for_updates; Polled is what it logged.
CheckStep == /\ Len(poll_log') = Len(poll_log) + 1
             /\ poll_log'[Len(poll_log')].op = "check_for_updates"

Polled == poll_log'[Len(poll_log')]

\* C21: check_for_updates returns the fetched commit, and remembers its
\* identifier, exactly when upstream answered with a commit and nothing was
\* remembered or the fetched identifier differs from the remembered one; when
\* the fetched identifier equals the remembered one, or upstream answered with
\* a non-success status, it returns no update, no error, and leaves the
\* remembered identifier as it was.
C21_CheckForUpdates ==
    [][CheckStep =>
         LET fresh == /\ Polled.resp = "ok"
                      /\ (last_commit_sha = None \/ last_commit_sha[1] # upstream_tip)
             stale == \/ Polled.resp = "ok" /\ last_commit_sha = Some(upstream_tip)
                      \/ Polled.resp = "status"
         IN /\ (Polled.ret = "Some") <=> fresh
            /\ fresh => (Polled.commit = Some(upstream_tip) /\ last_commit_sha' = Some(upstream_tip))
            /\ stale => (Polled.ret = "None" /\ Polled.commit = None)
            /\ ~fresh => last_commit_sha' = last_commit_sha]_vars

\* Three calls: one that found a new commit, one that fetched the remembered
\* commit again, one that was answered with a non-success status.
C21_Witness ==
    /\ Len(poll_log) = 3
    /\ \A i \in 1..3 : poll_log[i].op = "check_for_updates"
    /\ poll_log[1].ret = "Some" /\ poll_log[1].resp = "ok"
    /\ poll_log[2].ret = "None" /\ poll_log[2].resp = "ok"
    /\ poll_log[3].ret = "None" /\ poll_log[3].resp = "status"
    /\ last_commit_sha = Some(upstream_tip)

\* ------------------------------------------------------------------ C22
\* This step is a call of get_latest_commit.
LatestStep == /\ Len(poll_log') = Len(poll_log) + 1
              /\ poll_log'[Len(poll_log')].op = "get_latest_commit"

\* The call before this step was a get_latest_commit that returned the
\* commit of the present tip, which the poller does not remember.
LatestGaveUnremembered ==
    /\ poll_log # <<>>
    /\ poll_log[Len(poll_log)].op = "get_latest_commit"
    /\ poll_log[Len(poll_log)].commit = Some(upstream_tip)
    /\ last_commit_sha # Some(upstream_tip)

\* C22: get_latest_commit leaves the remembered identifier as it was,
\* whatever it returns; so when it has returned a commit the poller does not
\* remember, the next check_for_updates that fetches this commit returns it
\* as new.
C22_LatestKeepsMemory ==
    /\ [][LatestStep => last_commit_sha' = last_commit_sha]_vars
    /\ [][(LatestGaveUnremembered /\ CheckStep /\ Polled.resp = "ok")
          => (Polled.ret = "Some" /\ Polled.commit = Some(upstream_tip))]_vars

\* get_latest_commit returned a commit with nothing remembered, and the next
\* check_for_updates returned the same commit as new.
C22_Witness ==
    /\ Len(poll_log) >= 2
    /\ poll_log[1].op = "get_latest_commit" /\ poll_log[1].ret = "Some"
    /\ poll_log[2].op = "check_for_updates" /\ poll_log[2].ret = "Some"
    /\ poll_log[2].commit = poll_log[1].commit

\* ------------------------------------------------------------------ C23
\* This step is the tick's poll (lines 163-190), and what it came to.
PollStep == m_pc = "poll" /\ m_pc' # "poll"

PollFailed == m_pc' = "idle" /\ m_result' = "err"

PollReturnedCommit == m_pc' = "building"

\* The tick goes on to the deploy: to fetching the target commit, or with the
\* polled commit to persisting Building.
EntersDeployPath == m_pc' \in {"latest", "building"}

NeedsRebuild == PollReturnedCommit \/ ~repo_cloned \/ ~binary_built

\* A forced rebuild whose get_latest_commit yields no commit fails the tick
\* with the store, the history and the processes as they were.
LatestFailureIsClean ==
    (m_pc = "latest" /\ m_pc' # "latest") =>
        \/ m_pc' = "building"
        \/ /\ m_pc' = "idle" /\ m_result' = "err"
           /\ UNCHANGED <<storage_vars, alive, build_manager, compiler_alive, next_id>>

DeployCalls(calls) ==
    LET IsStep(c) == c \in {"stop_current_process", "sleep", "clone_or_update_repo",
                            "build_project", "prepare_workspace_config", "start_new_process"}
    IN SelectSeq(calls, IsStep)

\* This step is restart_service calling start_new_process.
DeployStarts == m_pc = "start" /\ m_pc' # "start"

\* This step is restart_service stopping a tracked child.
DeployStopsTracked == m_pc = "stop" /\ m_pc' # "stop" /\ build_manager # None

\* C24: in a deploy sequence the steps come in the order stop, restart delay,
\* sync, build, config preparation, start, and the child the reconciliation
\* task tracked before the deploy has exited when stop_current_process is
\* over, hence before start is invoked, also when the kill signal could not
\* be sent.
C24_StopCompleteBeforeStart ==
    [][/\ DeployStarts =>
            DeployCalls(m_calls') = <<"stop_current_process", "sleep", "clone_or_update_repo",
                                      "build_project", "prepare_workspace_config",
                                      "start_new_process">>
       /\ DeployStopsTracked => build_manager[1] \notin alive']_vars

\* ------------------------------------------------------------------ C25
\* What the calls of the ending tick say of its deploy.
SyncFailed == "sync failed" \in Range(m_calls)

BuildInvoked == "build_project" \in Range(m_calls)

BuildSucceeded == "exit0" \in Range(m_calls)

StartInvoked == "start_new_process" \in Range(m_calls)

\* C25: in a deploy sequence the build is attempted only after a successful
\* sync and the process is started only after a build that ended Success; a
\* failed sync gives a Failed record, no build and no start, and a failed
\* build no start.
C25_StepsGuardEachOther ==
    [][DeployTickEnds =>
         /\ BuildInvoked => "synced" \in Range(m_calls)
         /\ StartInvoked => BuildSucceeded
         /\ SyncFailed => /\ m_build[1].status = "Failed"
                          /\ ~BuildInvoked /\ ~StartInvoked /\ m_new_pid = None
         /\ (BuildInvoked /\ ~BuildSucceeded) => (~StartInvoked /\ m_new_pid = None)
         /\ (m_pc = "build" /\ ~BuildInvoked) => UNCHANGED <<alive, build_manager>>]_vars

\* A tick whose sync failed is about to persist its Failed record; it has
\* started no process.
C25_Witness ==
    /\ m_pc = "save" /\ "sync failed" \in Range(m_calls)
    /\ m_build # None /\ m_build[1].status = "Failed"
    /\ m_new_pid = None

\* ------------------------------------------------------------------ C26
\* This step is build_project failing to spawn the compiler: the tick ends
\* inside the build step.
SpawnFails == m_pc = "build" /\ TickEnds

\* C26: when the compiler cannot be spawned, build_project returns an error
\* and no BuildRecord is produced, and the tick does not leave the stored
\* status as it persisted it before the deploy, build_status = Building.
C26_SpawnFailureIsHandled ==
    [][SpawnFails =>
         /\ m_result' = "err"
         /\ builds' = builds
         /\ system_status'.build_status # "Building"]_vars

\* ------------------------------------------------------------------ C27
\* The lines 1..n in the order written.
Lines(n) == [i \in 1..n |-> i]

\* This step is build_project taking the exit status of a child that exited
\* by itself.
BuildExitsNormally == drain_kind = "cargo" /\ drain_pc = "wait" /\ drain_pc' = "returned"
                      /\ drain_result'[1].how = "exit"

\* C27: when the build ends by a normal exit with a non-zero code the
\* record's error_message holds every line the compiler wrote to stderr, in
\* order, whatever the order in which the end of stdout and the pending
\* lines of stderr became readable; exit code 0 gives Success and no message.
C27_StderrIsComplete ==
    [][BuildExitsNormally =>
         IF child.code = 0
         THEN drain_result'[1].status = "Success" /\ drain_result'[1].error_message = None
         ELSE /\ drain_result'[1].status = "Failed"
              /\ drain_result'[1].error_message = Some(Lines(child.err_written))]_vars

\* ------------------------------------------------------------------ C28
\* Both streams have reached end-of-file and nothing is left unread.
BothAtEof ==
    /\ stdout_pipe = 0 /\ ~child.out_open
    /\ stderr_pipe = <<>> /\ ~child.err_open

\* C28: the drain loop stops reading only when both streams have reached
\* end-of-file, so no child is left blocked on a full pipe, and
\* clone_or_update_repo, which has no deadline, returns.
C28_DrainReachesEof ==
    /\ [][(drain_pc = "loop" /\ drain_pc' = "wait") => BothAtEof]_vars
    /\ drain_kind = "git" => <>(drain_pc = "returned")

\* ------------------------------------------------------------------ C29
\* The record the deploy holds has left Building, and this step keeps it
\* (same identity).
HoldsFinishedRecord ==
    /\ m_build # None /\ m_build' # None
    /\ m_build'[1].id = m_build[1].id
    /\ m_build[1].status # "Building"

\* C29: a BuildRecord leaves Building once, with finished_at assigned at that
\* transition, and is not changed afterwards: a record that has reached
\* Success is never turned to Failed and its finished_at is not rewritten,
\* whether the start after the build succeeds or fails.
C29_RecordFinishesOnce ==
    [][/\ HoldsFinishedRecord => m_build' = m_build
       /\ (m_build # None /\ m_build[1].status # "Building") => m_build[1].finished_at # None]_vars

\* ------------------------------------------------------------------ C30
\* The health tick persists a liveness transition in this step.
TransitionWrite == s_pc = "write" /\ s_pc' = "check"

\* The health tick persists its own restart in this step.
RestartWrite == s_pc = "started" /\ s_pc' = "idle"

C30_WitnessRunning ==
    /\ s_pc = "check"
    /\ s_is_running /\ ~s_current_status.is_running
    /\ system_status.is_running /\ system_status.build_status = "Success"

\* A health tick whose probe agrees with the flag reaches its restart check
\* without a transition write.
C30_WitnessQuiet ==
    /\ s_pc = "check"
    /\ s_is_running = s_current_status.is_running

\* ------------------------------------------------------------------ C31
\* This step is main's call of prepare_for_start.
PrepareStep == sup_ret = None /\ sup_ret' # None

\* C31: orphan cleanup runs once, before the first tick of a loop; it sends
\* SIGTERM first and SIGKILL only after it; and when it has returned the
\* process that the persisted process_pid names is not alive.
C31_OrphanIsGone ==
    [][/\ HealthStep => sup_ret # None /\ sup_ret' = sup_ret
       /\ PrepareStep =>
            /\ sup_ret'[1].signals \in {<<>>, <<"SIGTERM">>, <<"SIGTERM", "SIGKILL">>}
            /\ system_status.process_pid # None =>
                 system_status.process_pid[1] \notin alive']_vars

\* ------------------------------------------------------------------ C32
\* This step is a call of one of the four mutators of Storage.
MutatorStep ==
    /\ sup_ret' # sup_ret
    /\ sup_ret'[1].op \in {"save_build_status", "update_system_status",
                           "set_service_started", "set_service_stopped"}

\* The StorageData the store holds in memory.
InMemory == [builds |-> builds, system_status |-> system_status]

\* C32: when a mutator of the State Store returns Ok, the data file is the
\* document of the whole in-memory state (history and SystemStatus), and a
\* Storage::new over that file loads exactly that state.
C32_SavedIsWhole ==
    [][(MutatorStep /\ sup_ret'[1].ok) =>
         /\ data_file' = Document(InMemory')
         /\ Storage_new(data_file', TRUE).data = InMemory']_vars

\* A mutator has returned Ok after the file and the memory had come apart (an
\* earlier write failed), and the file is whole again.
C32_Witness ==
    /\ sup_ret # None
    /\ sup_ret[1].op = "set_service_stopped"
    /\ sup_ret[1].ok /\ ~sup_ret[1].was_saved
    /\ builds # <<>>
    /\ data_file = Document(InMemory)

\* ------------------------------------------------------------------ C36
\* C36: a mutator of the State Store that returns Err leaves the in-memory
\* state as it was, so the in-memory state equals the last document that was
\* written.
C36_FailedWriteChangesNothing ==
    [][(MutatorStep /\ ~sup_ret'[1].ok) => InMemory' = InMemory]_vars

\* ------------------------------------------------------------------ C33
\* The records StoreSave calls save_build_status with.
StoreRecords ==
    {[id |-> id, commit_sha |-> 1, status |-> st, started_at |-> t,
      finished_at |-> Some(t),
      error_message |-> IF st = "Failed" THEN Some("stderr") ELSE None] :
       id \in StoreIds, t \in StoreStamps, st \in {"Success", "Failed"}}

\* What C33 says of one call: new is what save_build_status(b) makes of old.
UpsertsSortedCapped(old, b, new) ==
    LET others == {r \in Range(old) : r.id # b.id}
        candidates == others \cup {b}
        dropped == candidates \ Range(new)
    IN /\ Len(new) = Min(Cardinality(candidates), HistoryCap)
       /\ Range(new) \subseteq candidates
       /\ Cardinality({new[i].id : i \in DOMAIN new}) = Len(new)
       /\ \A i \in 1..(Len(new) - 1) : new[i].started_at >= new[i + 1].started_at
       /\ \A d \in dropped : \A i \in DOMAIN new : d.started_at <= new[i].started_at
       /\ (/\ Cardinality(others) = HistoryCap
           /\ \A r \in others : b.started_at < r.started_at) => dropped = {b}

\* C33: for every history the store can hold and every record b,
\* save_build_status(b) leaves the first 100 of (the history without the
\* record of b's id, plus b) by started_at descending: identities are unique,
\* a record of the same id is replaced, the record dropped from a full history
\* is an oldest one, and it is b when b is older than all the others.
C33_SaveUpsertsSortsCaps ==
    \A b \in StoreRecords : UpsertsSortedCapped(builds, b, save_build_status(builds, b))

\* A full history into which save_build_status has put a record of a new
\* identity, so that a record was dropped.
C33_Witness ==
    /\ Len(builds) = HistoryCap
    /\ \E i \in DOMAIN builds : builds[i].id = HistoryCap + 1

\* ------------------------------------------------------------------ C34
\* C34: whenever the reconciliation task is between ticks (its last tick has
\* returned Ok or Err, no deploy is executing), the stored build_status is not
\* Building, so the health loop's restart is not held back by it.
C34_NoBuildingBetweenTicks ==
    m_pc = "idle" => system_status.build_status # "Building"

\* ------------------------------------------------------------------ C35
\* check_for_updates has just reported commit c as new to the running tick.
ReportedNew(c) ==
    /\ m_pc = "building"
    /\ m_commit = Some(c)
    /\ m_calls[Len(m_calls)] = "check_for_updates"

\* The history holds a record of commit c.
HasRecord(c) == \E i \in DOMAIN builds : builds[i].commit_sha = c

\* C35: every commit that check_for_updates reports as new eventually has a
\* persisted BuildStatus, also when the tick that polled it ends with an error
\* after the poll: a later tick deploys the commit. It is stated for the runs
\* in which upstream keeps answering, so that ticks keep returning Ok.
C35_ReportedCommitIsRecorded ==
    []<>(m_pc = "idle" /\ m_result = "ok") =>
        \A c \in Commits : ReportedNew(c) ~> HasRecord(c)

\* ------------------------------------------------------------------ C37
\* This step is the status write of a tick that has spawned a service process:
\* the final write of a deploy whose start succeeded, or the write after the
\* health loop's own start_new_process.
WriteAfterSpawn ==
    \/ m_pc = "final" /\ m_pc' = "idle" /\ m_new_pid # None
    \/ RestartWrite

\* C37: the stored started_at changes, and the stored is_running goes from
\* false to true, only in the status write of a tick that spawned a service
\* process; the liveness refresh of a reconciliation tick followed by a health
\* tick does neither while the same process keeps running.
C37_StartStampOnlyOnSpawn ==
    [][(\/ system_status'.started_at # system_status.started_at
        \/ ~system_status.is_running /\ system_status'.is_running)
       => WriteAfterSpawn]_vars

\* ------------------------------------------------------------------ C38
\* C38: whenever the stored status says is_running with build_status Success,
\* the service binary is the one compiled from the stored current_commit; after
\* a failed build of a commit and a restart of the previous binary by the
\* health loop, the status never shows that commit with Success.
C38_SuccessNamesTheBinary ==
    (system_status.is_running /\ system_status.build_status = "Success")
        => binary_commit = system_status.current_commit

\* ------------------------------------------------------------------ C39
\* A BuildStatus as the reconciliation loop may persist it.
Terminal(b) ==
    /\ b.status \in {"Success", "Failed"}
    /\ b.finished_at # None
    /\ (b.error_message # None) <=> (b.status = "Failed")

\* C39: every BuildStatus in the persisted history has the status Success or
\* Failed, has finished_at set, and has an error_message exactly when it is
\* Failed.
C39_PersistedRecordsAreTerminal ==
    /\ \A i \in DOMAIN builds : Terminal(builds[i])
    /\ data_file.data.builds = builds

\* The history holds the record of a build that failed in the compiler and
\* the tick that saved it has ended.
C39_Witness ==
    /\ m_pc = "idle"
    /\ \E i \in DOMAIN builds :
         builds[i].status = "Failed" /\ builds[i].error_message = Some("stderr")

\* ------------------------------------------------------------------ C40
\* A deploy has saved a Failed BuildStatus and is about to write its final
\* status, while the repository and a binary of an earlier build exist.
FailedDeployEnds ==
    /\ m_pc = "final"
    /\ m_build[1].status = "Failed"
    /\ repo_cloned /\ binary_built

\* The health task's own child is alive: the service is up.
HealthChildRuns ==
    build_manager_clone # None /\ build_manager_clone[1] \in alive

\* The health tick has found the service down and not Building, with the
\* repository and the binary present: its next step calls start_new_process.
HealthAboutToStart ==
    /\ s_pc = "check"
    /\ status_wants_restart(s_is_running, s_current_status)
    /\ repo_cloned /\ binary_built

\* C40: after a deploy has ended with a Failed BuildStatus while the
\* repository and an earlier binary exist, the health loop eventually calls
\* start_new_process for that binary (or its own child is running already), so
\* the service does not stay down until the next upstream commit.
C40_FailedDeployIsHealed ==
    FailedDeployEnds ~> (HealthChildRuns \/ HealthAboutToStart)

====
